---- MODULE Spec2Model ----
(***************************************************************************)
(* InfoShield AI: the human-review queue (tools/human_review.py), the      *)
(* guardrail (tools/guardrails.py) and the query runners                   *)
(* (agents/runner.py, agent.py).                                           *)
(*                                                                         *)
(* Text that the program inspects character by character (queries, report  *)
(* text, CSV lines) is a sequence of one-character strings.  Fixed         *)
(* messages and enumerations that the program only passes on are plain     *)
(* strings.                                                                *)
(***************************************************************************)
EXTENDS Integers, Sequences, FiniteSets, TLC

VARIABLES
    csv_exists,     \* os.path.exists(PENDING_VERIFICATIONS_PATH)
    csv_lines,      \* the records of the file, one serialized CSV line each
    writable,       \* whether open(..., 'w' / 'a') on the store succeeds
    call,           \* the last store operation or tool called, with its arguments
    ret,            \* the value it returned
    saved,          \* history: the arguments of every successful save, in order
    touched,        \* history: the session ids a successful update has matched
    task,           \* SpecRace: each task's position and locals in its first save
                    \* SpecStages: the orchestrator's position and the session state
    entry_point,    \* SpecPipe: the entry point the queries are sent to
    enable_human_review,    \* the runner's (or the call's) enable_human_review
    _error_count,   \* the runner's _error_count
    _query_count,   \* the runner's _query_count; for agent.py the queries started
    run,            \* the query in progress: the locals of the entry point
    result          \* what the entry point returned for the last query

pipeVars == <<entry_point, enable_human_review, _error_count, _query_count, run, result>>
vars == <<csv_exists, csv_lines, writable, call, ret, saved, touched, task, pipeVars>>

(***************************************************************************)
(* Bounds of the model.                                                    *)
(***************************************************************************)
MaxEntries == 2
MaxQueries == 2
MaxEvents == 2

(***************************************************************************)
(* Characters and helpers on character sequences.                          *)
(***************************************************************************)
COMMA == ","
QUOTE == "\""
CR == "\r"
LF == "\n"

None == <<"None">>

\* a function on 1..n as the tuple of its values (computed once)
AsTuple(f) == SubSeq(f, 1, Len(f))

\* s[a..b], empty when a > b
Slice(s, a, b) == [i \in 1..(IF b >= a THEN b - a + 1 ELSE 0) |-> s[a + i - 1]]

\* t occurs in s at position i
OccursAt(s, t, i) ==
    /\ i >= 1
    /\ i + Len(t) - 1 <= Len(s)
    /\ \A j \in 1..Len(t) : s[i + j - 1] = t[j]

\* Python's  t in s
Contains(s, t) == \E i \in 1..(Len(s) - Len(t) + 1) : OccursAt(s, t, i)

\* sep.join(ss)
RECURSIVE Join(_, _)
Join(ss, sep) ==
    IF ss = <<>> THEN <<>>
    ELSE IF Len(ss) = 1 THEN ss[1]
    ELSE ss[1] \o sep \o Join(Tail(ss), sep)

Digit(d) == CASE d = 0 -> "0" [] d = 1 -> "1" [] d = 2 -> "2" [] d = 3 -> "3"
              [] d = 4 -> "4" [] d = 5 -> "5" [] d = 6 -> "6" [] d = 7 -> "7"
              [] d = 8 -> "8" [] d = 9 -> "9"

DigitChars == {"0", "1", "2", "3", "4", "5", "6", "7", "8", "9"}

DigitValue(c) == CHOOSE d \in 0..9 : Digit(d) = c

\* str(n) for an int
RECURSIVE NatToStr(_)
NatToStr(n) == IF n < 10 THEN <<Digit(n)>> ELSE NatToStr(n \div 10) \o <<Digit(n % 10)>>

IntToStr(n) == IF n < 0 THEN <<"-">> \o NatToStr(0 - n) ELSE NatToStr(n)

\* int(s) for a string of digits with an optional sign
RECURSIVE DigitsToNat(_)
DigitsToNat(s) ==
    IF s = <<>> THEN 0
    ELSE 10 * DigitsToNat(Slice(s, 1, Len(s) - 1)) + DigitValue(s[Len(s)])

StrToInt(s) ==
    IF s # <<>> /\ s[1] = "-" THEN 0 - DigitsToNat(Tail(s)) ELSE DigitsToNat(s)

(***************************************************************************)
(* The csv module as the store uses it: csv.writer / csv.DictWriter with   *)
(* the default dialect (QUOTE_MINIMAL, doublequote) and csv.DictReader.    *)
(***************************************************************************)
\* characters that make the writer quote a field
NeedsQuote(field) == \E i \in 1..Len(field) : field[i] \in {COMMA, QUOTE, CR, LF}

RECURSIVE DoubleQuotes(_)
DoubleQuotes(field) ==
    IF field = <<>> THEN <<>>
    ELSE (IF Head(field) = QUOTE THEN <<QUOTE, QUOTE>> ELSE <<Head(field)>>)
         \o DoubleQuotes(Tail(field))

WriteFieldUnquoted(field) == field

\* one field as csv.writer emits it
WriteField(field) ==
    IF NeedsQuote(field) THEN <<QUOTE>> \o DoubleQuotes(field) \o <<QUOTE>> ELSE field

\* writer.writerow(fields): the line without its terminator
writerow(fields) == Join(AsTuple([i \in 1..Len(fields) |-> WriteField(fields[i])]), <<COMMA>>)

\* the least position >= s of a comma of the line, Len(line) + 1 when none
NextComma(line, s) ==
    LET ps == {i \in s..Len(line) : line[i] = COMMA}
    IN  IF ps = {} THEN Len(line) + 1 ELSE CHOOSE i \in ps : \A j \in ps : i <= j

\* the number of quote characters in line[a..b]
QuotesIn(line, a, b) == Cardinality({j \in a..b : line[j] = QUOTE})

\* a quoted field opens at s: the position of the quote that closes it, the
\* last of the first odd run of quotes, Len(line) + 1 when it never closes
ClosingQuote(line, s) ==
    LET ps == {c \in (s + 1)..Len(line) :
                  /\ line[c] = QUOTE
                  /\ (c = Len(line) \/ line[c + 1] # QUOTE)
                  /\ QuotesIn(line, s + 1, c) % 2 = 1}
    IN  IF ps = {} THEN Len(line) + 1 ELSE CHOOSE c \in ps : \A d \in ps : c <= d

\* the text of line[a..b] inside a quoted field: of two adjacent quotes the
\* second is kept
Unescape(line, a, b) ==
    LET keep == SelectSeq([i \in 1..(IF b >= a THEN b - a + 1 ELSE 0) |-> a + i - 1],
                          LAMBDA j : line[j] # QUOTE \/ QuotesIn(line, a, j) % 2 = 0)
    IN  [i \in 1..Len(keep) |-> line[keep[i]]]

\* the fields of the line from position s on, where a field starts: a field
\* that opens with a quote runs to its closing quote and on to the next
\* comma, any other field runs to the next comma (a quote inside it is text)
RECURSIVE ParseFields(_, _)
ParseFields(line, s) ==
    IF s > Len(line) THEN << <<>> >>
    ELSE LET quoted == line[s] = QUOTE
             c == IF quoted THEN ClosingQuote(line, s) ELSE s - 1
             e == NextComma(line, c + 1)
             field == IF quoted
                      THEN Unescape(line, s + 1, c - 1) \o SubSeq(line, c + 1, e - 1)
                      ELSE SubSeq(line, s, e - 1)
         IN  IF e > Len(line) THEN <<field>> ELSE <<field>> \o ParseFields(line, e + 1)

\* one record as csv.reader returns it (an empty line is the empty row)
ParseRow(line) == IF line = <<>> THEN <<>> ELSE ParseFields(line, 1)

RestKey == <<"restkey">>

\* a dict is its keys in insertion order and the values beside them
Dict(keys, values) == [keys |-> keys, values |-> values]

\* the position of key in the dict, 0 when it has none
KeyIndex(d, key) ==
    LET ps == {i \in 1..Len(d.keys) : d.keys[i] = key}
    IN  IF ps = {} THEN 0 ELSE CHOOSE i \in ps : \A j \in ps : j <= i

\* d.get(key, default)
Get(d, key, default) == IF KeyIndex(d, key) = 0 THEN default ELSE d.values[KeyIndex(d, key)]

\* d[key] = value
Set(d, key, value) ==
    IF KeyIndex(d, key) = 0
    THEN Dict(Append(d.keys, key), Append(d.values, value))
    ELSE Dict(d.keys, [d.values EXCEPT ![KeyIndex(d, key)] = value])

\* the dict csv.DictReader builds for one row: dict(zip(fieldnames, row)), a
\* short row padded with None (restval), the surplus of a long row under the
\* key None (restkey); a repeated fieldname keeps its last value
DictRow(fieldnames, row) ==
    LET n == Len(fieldnames)
        firsts == SelectSeq(AsTuple([i \in 1..n |-> i]),
                            LAMBDA i : \A j \in 1..(i - 1) : fieldnames[j] # fieldnames[i])
        lastOf(i) == CHOOSE j \in i..n :
                        /\ fieldnames[j] = fieldnames[i]
                        /\ \A k \in (j + 1)..n : fieldnames[k] # fieldnames[i]
        keys == AsTuple([k \in 1..Len(firsts) |-> fieldnames[firsts[k]]])
        values == AsTuple([k \in 1..Len(firsts) |->
                     IF lastOf(firsts[k]) <= Len(row) THEN row[lastOf(firsts[k])] ELSE None])
    IN  IF Len(row) > n
        THEN Dict(Append(keys, RestKey), Append(values, SubSeq(row, n + 1, Len(row))))
        ELSE Dict(keys, values)

\* reader.fieldnames: the first record of the file, None for an empty file
Fieldnames(lines) == IF lines = <<>> THEN None ELSE ParseRow(lines[1])

\* list(csv.DictReader(f)): the dicts of the records after the first, empty rows skipped
DictReader(lines) ==
    IF lines = <<>> THEN <<>>
    ELSE LET fieldnames == Fieldnames(lines)
             rows == SelectSeq(AsTuple([i \in 1..(Len(lines) - 1) |-> ParseRow(lines[i + 1])]),
                               LAMBDA r : r # <<>>)
         IN  AsTuple([i \in 1..Len(rows) |-> DictRow(fieldnames, rows[i])])

\* DictWriter.writerow: the dict's values in fieldnames order, None and missing as ''
DictToRow(fieldnames, d) ==
    AsTuple([i \in 1..Len(fieldnames) |->
        LET v == Get(d, fieldnames[i], <<>>) IN IF v = None THEN <<>> ELSE v])

\* DictWriter raises ValueError for a dict with a key that is no fieldname
HasExtraKey(fieldnames, d) ==
    \E i \in 1..Len(d.keys) : \A j \in 1..Len(fieldnames) : fieldnames[j] # d.keys[i]

(***************************************************************************)
(* models.py: HumanReviewEntry.                                            *)
(***************************************************************************)
S_session_id == <<"s", "e", "s", "s", "i", "o", "n", "_", "i", "d">>
S_query == <<"q", "u", "e", "r", "y">>
S_location == <<"l", "o", "c", "a", "t", "i", "o", "n">>
S_urgency_score == <<"u", "r", "g", "e", "n", "c", "y", "_", "s", "c", "o", "r", "e">>
S_credibility_score == <<"c", "r", "e", "d", "i", "b", "i", "l", "i", "t", "y", "_", "s", "c", "o", "r", "e">>
S_timestamp == <<"t", "i", "m", "e", "s", "t", "a", "m", "p">>
S_status == <<"s", "t", "a", "t", "u", "s">>
S_reviewer_notes == <<"r", "e", "v", "i", "e", "w", "e", "r", "_", "n", "o", "t", "e", "s">>
S_pending == <<"p", "e", "n", "d", "i", "n", "g">>

csv_headers ==
    <<S_session_id, S_query, S_location, S_urgency_score,
      S_credibility_score, S_timestamp, S_status, S_reviewer_notes>>

\* HumanReviewEntry(...) with the defaults status="pending", reviewer_notes=""
HumanReviewEntry(session_id, query, location, urgency_score, credibility_score, timestamp) ==
    [session_id |-> session_id, query |-> query, location |-> location,
     urgency_score |-> urgency_score, credibility_score |-> credibility_score,
     timestamp |-> timestamp, status |-> S_pending, reviewer_notes |-> <<>>]

to_csv_row(e) ==
    <<e.session_id, e.query, e.location, IntToStr(e.urgency_score),
      IntToStr(e.credibility_score), e.timestamp, e.status, e.reviewer_notes>>

(***************************************************************************)
(* tools/human_review.py.  A file is [exists, lines].                      *)
(***************************************************************************)
File(exists, lines) == [exists |-> exists, lines |-> lines]

ensure_rewrites(f) == File(TRUE, <<writerow(csv_headers)>>)

\* _ensure_csv_exists on a store that can be opened for writing
_ensure_csv_exists(f) ==
    IF ~f.exists THEN File(TRUE, <<writerow(csv_headers)>>) ELSE f

review_time_hour(urgency_score) ==
    IF urgency_score >= 8 THEN <<"w", "i", "t", "h", "i", "n", " ", "1", "5", " ", "m", "i", "n", "u", "t", "e", "s">>
    ELSE <<"w", "i", "t", "h", "i", "n", " ", "1", " ", "h", "o", "u", "r">>

review_time_above(urgency_score) ==
    IF urgency_score > 8 THEN <<"w", "i", "t", "h", "i", "n", " ", "1", "5", " ", "m", "i", "n", "u", "t", "e", "s">>
    ELSE IF urgency_score > 5 THEN <<"w", "i", "t", "h", "i", "n", " ", "1", " ", "h", "o", "u", "r">>
    ELSE <<"w", "i", "t", "h", "i", "n", " ", "2", "4", " ", "h", "o", "u", "r", "s">>

review_time_of(urgency_score) ==
    IF urgency_score >= 8 THEN <<"w", "i", "t", "h", "i", "n", " ", "1", "5", " ", "m", "i", "n", "u", "t", "e", "s">>
    ELSE IF urgency_score >= 5 THEN <<"w", "i", "t", "h", "i", "n", " ", "1", " ", "h", "o", "u", "r">>
    ELSE <<"w", "i", "t", "h", "i", "n", " ", "2", "4", " ", "h", "o", "u", "r", "s">>

\* str(e) of the exception a failing open(...) raises
ErrText == <<"[", "E", "r", "r", "n", "o", " ", "1", "3", "]", " ", "P", "e", "r", "m", "i", "s", "s", "i", "o", "n", " ", "d", "e", "n", "i", "e", "d">>

\* str(e) of the ValueError DictWriter raises for a key outside fieldnames
ExtraKeyText == <<"d", "i", "c", "t", " ", "c", "o", "n", "t", "a", "i", "n", "s", " ", "f", "i", "e", "l", "d", "s", " ", "n", "o", "t", " ", "i", "n", " ", "f", "i", "e", "l", "d", "n", "a", "m", "e", "s">>

SaveErrorAsSaved(e) ==
    [session_id |-> <<>>, status |-> "saved",
     message |-> <<"F", "a", "i", "l", "e", "d", " ", "t", "o", " ", "s", "a", "v", "e", " ", "f", "o", "r", " ", "r", "e", "v", "i", "e", "w", ":", " ">> \o e,
     estimated_review_time |-> <<"u", "n", "k", "n", "o", "w", "n">>]

SaveError(e) ==
    [session_id |-> <<>>, status |-> "error",
     message |-> <<"F", "a", "i", "l", "e", "d", " ", "t", "o", " ", "s", "a", "v", "e", " ", "f", "o", "r", " ", "r", "e", "v", "i", "e", "w", ":", " ">> \o e,
     estimated_review_time |-> <<"u", "n", "k", "n", "o", "w", "n">>]

\* save_for_human_review: [file, ret]; session_id and timestamp are the values
\* uuid.uuid4().hex[:8] and datetime.now().isoformat() produce in this call;
\* w tells whether the store can be opened for writing (else open raises and
\* the except branch answers)
save_for_human_review(f, w, query, location, urgency_score, credibility_score, session_id, timestamp) ==
    IF ~w THEN [file |-> f, ret |-> SaveError(ErrText)]
    ELSE LET f1 == _ensure_csv_exists(f)
             entry == HumanReviewEntry(session_id, query, location, urgency_score,
                                       credibility_score, timestamp)
         IN  [file |-> File(TRUE, Append(f1.lines, writerow(to_csv_row(entry)))),
              ret |-> [session_id |-> session_id, status |-> "saved",
                       message |-> <<"Q", "u", "e", "r", "y", " ", "s", "a", "v", "e", "d", " ", "f", "o", "r", " ", "h", "u", "m", "a", "n", " ", "v", "e", "r", "i", "f", "i", "c", "a", "t", "i", "o", "n", ".", " ", "Y", "o", "u", "r", " ", "r", "e", "f", "e", "r", "e", "n", "c", "e", " ", "I", "D", " ", "i", "s", " ">>
                                   \o session_id \o <<".">>,
                       estimated_review_time |-> review_time_of(urgency_score)]]

S_all == <<"a", "l", "l">>

SelectStatusAll(entries, status_filter) == entries

\* the rows the read loop of get_pending_reviews keeps
SelectStatus(entries, status_filter) ==
    SelectSeq(entries, LAMBDA row : status_filter = S_all
                                     \/ Get(row, S_status, S_pending) = status_filter)

\* get_pending_reviews: [file, ret]
get_pending_reviews(f, w, status_filter) ==
    IF ~f.exists /\ ~w
    THEN [file |-> f, ret |-> [count |-> 0, entries |-> <<>>, status |-> "error",
                               message |-> ErrText]]
    ELSE LET f1 == _ensure_csv_exists(f)
             entries == SelectStatus(DictReader(f1.lines), status_filter)
         IN  [file |-> f1,
              ret |-> [count |-> Len(entries), entries |-> entries, status |-> "success"]]

UpdatedEntriesAll(entries, session_id, new_status, reviewer_notes) ==
    AsTuple([i \in 1..Len(entries) |->
        Set(Set(entries[i], S_status, new_status), S_reviewer_notes, reviewer_notes)])

\* the rows of update_review_status's read loop: matching rows get the new
\* status and notes
UpdatedEntries(entries, session_id, new_status, reviewer_notes) ==
    AsTuple([i \in 1..Len(entries) |->
        IF Get(entries[i], S_session_id, None) = session_id
        THEN Set(Set(entries[i], S_status, new_status), S_reviewer_notes, reviewer_notes)
        ELSE entries[i]])

UpdateDropsOthers(entries, session_id, new_status, reviewer_notes) ==
    SelectStatus(UpdatedEntries(entries, session_id, new_status, reviewer_notes), new_status)

\* the entries update_review_status writes back
WriteBack(entries, session_id, new_status, reviewer_notes) ==
    UpdatedEntries(entries, session_id, new_status, reviewer_notes)

FoundAlways(entries, session_id) == TRUE

\* the flag  found  after the read loop
Found(entries, session_id) ==
    \E i \in 1..Len(entries) : Get(entries[i], S_session_id, None) = session_id

UpdateError(message) == [status |-> "error", message |-> message]

\* update_review_status: [file, ret]
update_review_status(f, w, session_id, new_status, reviewer_notes) ==
    IF ~f.exists /\ ~w THEN [file |-> f, ret |-> UpdateError(ErrText)]
    ELSE LET f1 == _ensure_csv_exists(f)
             headers == Fieldnames(f1.lines)
             old == DictReader(f1.lines)
             entries == WriteBack(old, session_id, new_status, reviewer_notes)
         IN  IF ~Found(old, session_id)
             THEN [file |-> f1,
                   ret |-> UpdateError(<<"S", "e", "s", "s", "i", "o", "n", " ", "I", "D", " ">> \o session_id \o <<" ", "n", "o", "t", " ", "f", "o", "u", "n", "d">>)]
             ELSE IF ~w THEN [file |-> f1, ret |-> UpdateError(ErrText)]
             ELSE IF \E i \in 1..Len(entries) : HasExtraKey(headers, entries[i])
                  THEN \* writeheader and the rows before the offending one are written,
                       \* then ValueError
                       LET bad == CHOOSE i \in 1..Len(entries) :
                                      /\ HasExtraKey(headers, entries[i])
                                      /\ \A j \in 1..(i - 1) : ~HasExtraKey(headers, entries[j])
                       IN  [file |-> File(TRUE, <<writerow(headers)>> \o
                                          AsTuple([i \in 1..(bad - 1) |->
                                              writerow(DictToRow(headers, entries[i]))])),
                            ret |-> UpdateError(ExtraKeyText)]
             ELSE [file |-> File(TRUE, <<writerow(headers)>> \o
                                AsTuple([i \in 1..Len(entries) |->
                                    writerow(DictToRow(headers, entries[i]))])),
                   ret |-> [status |-> "success",
                            message |-> <<"U", "p", "d", "a", "t", "e", "d", " ">> \o session_id \o <<" ", "t", "o", " ", "s", "t", "a", "t", "u", "s", ":", " ">>
                                        \o new_status]]

(***************************************************************************)
(* The inputs the store operations are called with.                        *)
(***************************************************************************)
SaveArgs ==
    { [query |-> <<"f", "l", "o", "o", "d", " ", "i", "n", " ", "p", "u", "n", "e", "?">>, location |-> <<"p", "u", "n", "e">>,
       urgency_score |-> 5, credibility_score |-> 45],
      [query |-> <<"h", "e", "l", "p", ",", " ", "\"", "f", "i", "r", "e", "\"", "\n", "n", "o", "w">>, location |-> <<"U", "n", "k", "n", "o", "w", "n">>,
       urgency_score |-> 8, credibility_score |-> 15] }

\* values of uuid.uuid4().hex[:8] with the "IS-" prefix
SessionIds == { <<"I", "S", "-", "0", "0", "0", "0", "0", "0", "0", "a">>, <<"I", "S", "-", "0", "0", "0", "0", "0", "0", "0", "b">> }

\* datetime.now().isoformat() at the n-th save
NowAt(n) == <<"2", "0", "2", "5", "-", "0", "1", "-", "0", "1", "T", "0", "0", ":", "0", "0", ":">> \o (IF n < 10 THEN <<"0">> ELSE <<>>) \o NatToStr(n)

S_verified == <<"v", "e", "r", "i", "f", "i", "e", "d">>

UpdateArgs ==
    { [new_status |-> S_verified, reviewer_notes |-> <<>>],
      [new_status |-> <<"d", "o", "n", "e">>, reviewer_notes |-> <<"o", "k", ",", " ", "\"", "s", "e", "e", "n", "\"">>] }

StatusFilters == { S_pending, S_all }

(***************************************************************************)
(* The store operations, one call at a time.  call is the operation and    *)
(* its arguments, ret what it returned.                                    *)
(***************************************************************************)
NoException == [type |-> "none", text |-> <<>>]

\* no query has been sent yet; of a call that has returned, run keeps how it
\* returned (exit), the exception it caught (raised) and the store and the
\* error count it started with; failed0 counts the calls of the instance that
\* failed one after the other just before this one
NoRun ==
    [pc |-> "idle", exit |-> "none", query |-> <<>>, event_count |-> 0, final_response |-> <<>>,
     agents_used |-> <<>>, raised |-> NoException, exists0 |-> FALSE, lines0 |-> <<>>,
     errors0 |-> 0, failed0 |-> 0]

NoResult == [response |-> None]

\* the specifications of the store alone send no query
PipeIdle ==
    /\ entry_point = "none"
    /\ enable_human_review = TRUE
    /\ _error_count = 0
    /\ _query_count = 0
    /\ run = NoRun
    /\ result = NoResult

TheFile == File(csv_exists, csv_lines)

StoreInit ==
    /\ csv_exists = FALSE
    /\ csv_lines = <<>>
    /\ writable = TRUE
    /\ call = [op |-> "none"]
    /\ ret = [status |-> "none"]
    /\ saved = <<>>
    /\ touched = {}

Save(a, sid) ==
    /\ Len(saved) < MaxEntries
    /\ \E r \in {save_for_human_review(TheFile, writable, a.query, a.location,
                    a.urgency_score, a.credibility_score, sid, NowAt(Len(saved)))} :
           /\ csv_exists' = r.file.exists
           /\ csv_lines' = r.file.lines
           /\ ret' = r.ret
           /\ saved' = IF r.ret.status = "saved"
                       THEN Append(saved, HumanReviewEntry(sid, a.query, a.location,
                                a.urgency_score, a.credibility_score, NowAt(Len(saved))))
                       ELSE saved
    /\ call' = [op |-> "save", session_id |-> sid]
    /\ UNCHANGED <<writable, touched, task, pipeVars>>

List(status_filter) ==
    /\ \E r \in {get_pending_reviews(TheFile, writable, status_filter)} :
           /\ csv_exists' = r.file.exists
           /\ csv_lines' = r.file.lines
           /\ ret' = r.ret
    /\ call' = [op |-> "list", status_filter |-> status_filter]
    /\ UNCHANGED <<writable, saved, touched, task, pipeVars>>

Update(sid, u) ==
    /\ \E r \in {update_review_status(TheFile, writable, sid, u.new_status, u.reviewer_notes)} :
           /\ csv_exists' = r.file.exists
           /\ csv_lines' = r.file.lines
           /\ ret' = r.ret
           /\ touched' = IF r.ret.status = "success" THEN touched \cup {sid} ELSE touched
    /\ call' = [op |-> "update", session_id |-> sid, new_status |-> u.new_status,
                reviewer_notes |-> u.reviewer_notes]
    /\ UNCHANGED <<writable, saved, task, pipeVars>>

Init == StoreInit /\ task = <<>> /\ PipeIdle

Next ==
    \/ \E a \in SaveArgs, sid \in SessionIds : Save(a, sid)
    \/ \E status_filter \in StatusFilters : List(status_filter)
    \/ \E sid \in SessionIds, u \in UpdateArgs : Update(sid, u)

Spec == Init /\ [][Next]_vars

(***************************************************************************)
(* Properties of the store under Spec.                                     *)
(***************************************************************************)
\* the entries of the store as a reader sees them
Entries == DictReader(csv_lines)

\* the session ids stored in the records lines
StoredIds(lines) ==
    LET es == DictReader(lines) IN {Get(es[i], S_session_id, None) : i \in 1..Len(es)}

\* C3: with save, list and update executed one at a time, no step removes an
\* entry: the number of stored entries never decreases and every session_id
\* stored before the step is stored after it.
C3_NoEntryRemoved ==
    [][/\ Len(DictReader(csv_lines')) >= Len(DictReader(csv_lines))
       /\ StoredIds(csv_lines) \subseteq StoredIds(csv_lines')]_vars

\* an update has rewritten a store that holds two entries
C3_Witness ==
    /\ call.op = "update"
    /\ ret.status = "success"
    /\ Len(Entries) >= 2
    /\ \E i \in 1..Len(Entries) : Get(Entries[i], S_status, None) = S_pending

\* C4: no two entries of the store have the same session_id.
C4_SessionIdsUnique ==
    \A i, j \in 1..Len(Entries) :
        i # j => Get(Entries[i], S_session_id, None) # Get(Entries[j], S_session_id, None)

\* C5: an update whose session_id matches no stored entry answers with the
\* 'not found' error and leaves the header, the entries and their order as
\* they were (an absent store is created with its header and no entry).
C5_UpdateUnknownId ==
    [][(call'.op = "update" /\ call'.session_id \notin StoredIds(csv_lines))
        => /\ ret'.status = "error"
           /\ ret'.message = <<"S", "e", "s", "s", "i", "o", "n", " ", "I", "D", " ">> \o call'.session_id \o <<" ", "n", "o", "t", " ", "f", "o", "u", "n", "d">>
           /\ csv_exists => csv_lines' = csv_lines
           /\ ~csv_exists => csv_lines' = <<writerow(csv_headers)>>]_vars

\* an update with an id that is not stored has run on a store with an entry
C5_Witness ==
    /\ call.op = "update"
    /\ call.session_id \notin StoredIds(csv_lines)
    /\ Len(Entries) >= 1

\* C6: list('all') returns, for every save so far and in order, an entry with
\* the session_id, query, location, timestamp and the decimal text of the
\* urgency_score and credibility_score that save wrote; its status is
\* 'pending' and its reviewer_notes empty unless an update matched its id.
C6_RoundTrip ==
    (call.op = "list" /\ call.status_filter = S_all /\ ret.status = "success")
    => /\ ret.count = Len(saved)
       /\ Len(ret.entries) = Len(saved)
       /\ \A i \in 1..Len(saved) :
            /\ ret.entries[i].keys = csv_headers
            /\ Get(ret.entries[i], S_session_id, None) = saved[i].session_id
            /\ Get(ret.entries[i], S_query, None) = saved[i].query
            /\ Get(ret.entries[i], S_location, None) = saved[i].location
            /\ Get(ret.entries[i], S_urgency_score, None) = IntToStr(saved[i].urgency_score)
            /\ Get(ret.entries[i], S_credibility_score, None) = IntToStr(saved[i].credibility_score)
            /\ Get(ret.entries[i], S_timestamp, None) = saved[i].timestamp
            /\ saved[i].session_id \notin touched
               => /\ Get(ret.entries[i], S_status, None) = S_pending
                  /\ Get(ret.entries[i], S_reviewer_notes, None) = <<>>

\* list('all') has answered after two saves, one of a query that needs
\* quoting, and an update
C6_Witness ==
    /\ call.op = "list"
    /\ call.status_filter = S_all
    /\ Len(saved) >= 2
    /\ touched # {}
    /\ \E i \in 1..Len(saved) : NeedsQuote(saved[i].query) /\ saved[i].session_id \notin touched

\* C7: however often the operations have run the store initialization, an
\* existing store has exactly one header row, its first, and holds the saved
\* entries, all of them, in the order they were saved.
C7_InitIdempotent ==
    csv_exists =>
        /\ {i \in 1..Len(csv_lines) : ParseRow(csv_lines[i]) = csv_headers} = {1}
        /\ Len(Entries) = Len(saved)
        /\ \A i \in 1..Len(saved) :
              /\ Get(Entries[i], S_session_id, None) = saved[i].session_id
              /\ Get(Entries[i], S_query, None) = saved[i].query

\* the initialization has run again, in a list, on a store that holds entries
C7_Witness ==
    /\ call.op = "list"
    /\ csv_exists
    /\ Len(saved) >= 1

(***************************************************************************)
(* SpecRace: two tasks run their first save at the same time on an absent  *)
(* store.  A step is one file system call of save_for_human_review:        *)
(* os.path.exists, open(..., 'w'), the write of the header when that file  *)
(* is closed, and the append.                                              *)
(***************************************************************************)
Tasks == {"A", "B"}

\* the bytes of the file: every record followed by \r\n
RECURSIVE Stream(_)
Stream(lines) ==
    IF lines = <<>> THEN <<>> ELSE Head(lines) \o <<CR, LF>> \o Stream(Tail(lines))

\* the records of a byte stream: it is cut after every \r\n outside quotes
Records(stream) ==
    LET ends == {i \in 2..Len(stream) :
                    /\ stream[i] = LF
                    /\ stream[i - 1] = CR
                    /\ QuotesIn(stream, 1, i) % 2 = 0}
        last == IF ends = {} THEN 0 ELSE CHOOSE i \in ends : \A j \in ends : j <= i
        order == SelectSeq(AsTuple([i \in 1..Len(stream) |-> i]), LAMBDA i : i \in ends)
        whole == AsTuple([k \in 1..Len(order) |->
                    SubSeq(stream, (IF k = 1 THEN 1 ELSE order[k - 1] + 1), order[k] - 2)])
    IN  IF last < Len(stream) THEN Append(whole, SubSeq(stream, last + 1, Len(stream)))
        ELSE whole

\* a handle opened with 'w' writes text at offset 0, over what is there
WriteAtStart(lines, text) ==
    LET old == Stream(lines)
    IN  Records(text \o SubSeq(old, Len(text) + 1, Len(old)))

RaceInit ==
    /\ StoreInit
    /\ task \in [Tasks -> [pc : {"check"}, a : SaveArgs, sid : SessionIds]]
    /\ PipeIdle

\* _ensure_csv_exists: os.path.exists(PENDING_VERIFICATIONS_PATH)
RaceCheck(t) ==
    /\ task[t].pc = "check"
    /\ task' = [task EXCEPT ![t].pc = IF csv_exists THEN "append" ELSE "open"]
    /\ UNCHANGED <<csv_exists, csv_lines, writable, call, ret, saved, touched, pipeVars>>

\* _ensure_csv_exists: open(PENDING_VERIFICATIONS_PATH, 'w') creates or truncates
RaceOpenW(t) ==
    /\ task[t].pc = "open"
    /\ csv_exists' = TRUE
    /\ csv_lines' = <<>>
    /\ task' = [task EXCEPT ![t].pc = "header"]
    /\ UNCHANGED <<writable, call, ret, saved, touched, pipeVars>>

\* _ensure_csv_exists: the header row reaches the file when the with block closes it
RaceWriteHeader(t) ==
    /\ task[t].pc = "header"
    /\ csv_lines' = WriteAtStart(csv_lines, writerow(csv_headers) \o <<CR, LF>>)
    /\ task' = [task EXCEPT ![t].pc = "append"]
    /\ UNCHANGED <<csv_exists, writable, call, ret, saved, touched, pipeVars>>

\* save_for_human_review after _ensure_csv_exists: the entry is appended
RaceAppend(t) ==
    /\ task[t].pc = "append"
    /\ \E r \in {save_for_human_review(File(TRUE, csv_lines), writable, task[t].a.query,
                    task[t].a.location, task[t].a.urgency_score,
                    task[t].a.credibility_score, task[t].sid, NowAt(Len(saved)))} :
           /\ csv_exists' = r.file.exists
           /\ csv_lines' = r.file.lines
           /\ ret' = r.ret
    /\ saved' = Append(saved, HumanReviewEntry(task[t].sid, task[t].a.query,
                    task[t].a.location, task[t].a.urgency_score,
                    task[t].a.credibility_score, NowAt(Len(saved))))
    /\ call' = [op |-> "save", session_id |-> task[t].sid]
    /\ task' = [task EXCEPT ![t].pc = "done"]
    /\ UNCHANGED <<writable, touched, pipeVars>>

RaceNext ==
    \/ \E t \in Tasks : RaceCheck(t)
    \/ \E t \in Tasks : RaceOpenW(t)
    \/ \E t \in Tasks : RaceWriteHeader(t)
    \/ \E t \in Tasks : RaceAppend(t)

SpecRace == RaceInit /\ [][RaceNext]_vars

\* C8: when both tasks have finished their first save on the absent store,
\* the store has exactly one header row and holds both saved entries.
C8_FirstRunRaceSafe ==
    (\A t \in Tasks : task[t].pc = "done")
    => /\ {i \in 1..Len(csv_lines) : ParseRow(csv_lines[i]) = csv_headers} = {1}
       /\ Len(Entries) = Cardinality(Tasks)
       /\ \A i \in 1..Len(saved) : \E j \in 1..Len(Entries) :
             /\ Get(Entries[j], S_session_id, None) = saved[i].session_id
             /\ Get(Entries[j], S_query, None) = saved[i].query

(***************************************************************************)
(* str methods and the regular expressions of the program.  A pattern is   *)
(* run from a set of positions and gives the set of positions it can end   *)
(* at; position p is the one before the p-th character.                    *)
(***************************************************************************)
UPPER == <<"A", "B", "C", "D", "E", "F", "G", "H", "I", "J", "K", "L", "M", "N", "O", "P", "Q", "R", "S", "T", "U", "V", "W", "X", "Y", "Z">>
LOWER == <<"a", "b", "c", "d", "e", "f", "g", "h", "i", "j", "k", "l", "m", "n", "o", "p", "q", "r", "s", "t", "u", "v", "w", "x", "y", "z">>

\* \s and the characters str.strip() and str.split() take for white space
WS == {" ", "\t", "\n", "\r", "\f"}

\* \w
WordChars == {UPPER[i] : i \in 1..26} \cup {LOWER[i] : i \in 1..26} \cup DigitChars \cup {"_"}

\* s.lower()
Lower(s) ==
    AsTuple([i \in 1..Len(s) |->
        IF \E k \in 1..26 : UPPER[k] = s[i]
        THEN LOWER[CHOOSE k \in 1..26 : UPPER[k] = s[i]] ELSE s[i]])

\* s.strip(chars)
StripChars(s, chars) ==
    LET keep == {i \in 1..Len(s) : s[i] \notin chars}
    IN  IF keep = {} THEN <<>>
        ELSE SubSeq(s, CHOOSE i \in keep : \A j \in keep : i <= j,
                       CHOOSE i \in keep : \A j \in keep : j <= i)

\* s.split()
Split(s) ==
    LET starts == SelectSeq(AsTuple([i \in 1..Len(s) |-> i]),
                    LAMBDA i : s[i] \notin WS /\ (i = 1 \/ s[i - 1] \in WS))
        stop(i) == CHOOSE j \in i..Len(s) :
                      /\ \A k \in i..j : s[k] \notin WS
                      /\ (j = Len(s) \/ s[j + 1] \in WS)
    IN  AsTuple([k \in 1..Len(starts) |-> SubSeq(s, starts[k], stop(starts[k]))])

\* the literal t from the positions P
Lit(s, P, t) == {p + Len(t) : p \in {q \in P : OccursAt(s, t, q)}}

\* (t1|t2|...) from the positions P
AnyLit(s, P, ts) == UNION {Lit(s, P, t) : t \in ts}

\* [chars]* from the positions P
Run0(s, P, chars) ==
    {q \in 1..(Len(s) + 1) : \E p \in P : p <= q /\ \A k \in p..(q - 1) : s[k] \in chars}

\* [chars]+ from the positions P
Run1(s, P, chars) ==
    {q \in 1..(Len(s) + 1) : \E p \in P : p < q /\ \A k \in p..(q - 1) : s[k] \in chars}

\* \b at position p
Boundary(s, p) ==
    (p > 1 /\ p <= Len(s) + 1 /\ s[p - 1] \in WordChars)
    # (p >= 1 /\ p <= Len(s) /\ s[p] \in WordChars)

\* every position of s, for re.search
Anywhere(s) == 1..(Len(s) + 1)

\* any(t in s for t in ts)
ContainsAny(s, ts) == \E t \in ts : Contains(s, t)

(***************************************************************************)
(* tools/guardrails.py.                                                    *)
(***************************************************************************)
DISASTER_KEYWORDS ==
    { <<"f", "l", "o", "o", "d">>, <<"f", "l", "o", "o", "d", "i", "n", "g">>, <<"e", "a", "r", "t", "h", "q", "u", "a", "k", "e">>, <<"q", "u", "a", "k", "e">>, <<"t", "s", "u", "n", "a", "m", "i">>, <<"c", "y", "c", "l", "o", "n", "e">>, <<"h", "u", "r", "r", "i", "c", "a", "n", "e">>,
      <<"t", "y", "p", "h", "o", "o", "n">>, <<"t", "o", "r", "n", "a", "d", "o">>, <<"s", "t", "o", "r", "m">>, <<"w", "i", "l", "d", "f", "i", "r", "e">>, <<"f", "i", "r", "e">>, <<"l", "a", "n", "d", "s", "l", "i", "d", "e">>, <<"m", "u", "d", "s", "l", "i", "d", "e">>,
      <<"a", "v", "a", "l", "a", "n", "c", "h", "e">>, <<"d", "r", "o", "u", "g", "h", "t">>, <<"h", "e", "a", "t", "w", "a", "v", "e">>, <<"b", "l", "i", "z", "z", "a", "r", "d">>, <<"v", "o", "l", "c", "a", "n", "i", "c">>, <<"e", "r", "u", "p", "t", "i", "o", "n">>,
      <<"e", "m", "e", "r", "g", "e", "n", "c", "y">>, <<"d", "i", "s", "a", "s", "t", "e", "r">>, <<"c", "r", "i", "s", "i", "s">>, <<"e", "v", "a", "c", "u", "a", "t", "i", "o", "n">>, <<"r", "e", "s", "c", "u", "e">>, <<"r", "e", "l", "i", "e", "f">>,
      <<"c", "a", "s", "u", "a", "l", "t", "y">>, <<"c", "a", "s", "u", "a", "l", "t", "i", "e", "s">>, <<"d", "a", "m", "a", "g", "e">>, <<"d", "e", "s", "t", "r", "o", "y", "e", "d">>, <<"c", "o", "l", "l", "a", "p", "s", "e">>, <<"t", "r", "a", "p", "p", "e", "d">>,
      <<"h", "e", "a", "v", "y", " ", "r", "a", "i", "n">>, <<"s", "e", "v", "e", "r", "e", " ", "w", "e", "a", "t", "h", "e", "r">>, <<"w", "a", "r", "n", "i", "n", "g">>, <<"a", "l", "e", "r", "t">>, <<"r", "e", "d", " ", "a", "l", "e", "r", "t">>, <<"o", "r", "a", "n", "g", "e", " ", "a", "l", "e", "r", "t">>,
      <<"s", "a", "f", "e">>, <<"s", "a", "f", "e", "t", "y">>, <<"d", "a", "n", "g", "e", "r">>, <<"d", "a", "n", "g", "e", "r", "o", "u", "s">>, <<"r", "i", "s", "k">>, <<"h", "a", "z", "a", "r", "d">>, <<"t", "h", "r", "e", "a", "t">>,
      <<"i", "s", " ", "t", "h", "e", "r", "e">>, <<"i", "s", " ", "i", "t", " ", "t", "r", "u", "e">>, <<"h", "a", "p", "p", "e", "n", "i", "n", "g">>, <<"r", "e", "a", "l">>, <<"f", "a", "k", "e">>, <<"r", "u", "m", "o", "r">>, <<"h", "o", "a", "x">>,
      <<"v", "e", "r", "i", "f", "y">>, <<"c", "o", "n", "f", "i", "r", "m">>, <<"t", "r", "u", "e", " ", "o", "r", " ", "f", "a", "l", "s", "e">>, <<"f", "a", "c", "t", " ", "c", "h", "e", "c", "k">>,
      <<"i", "n", " ", "i", "n", "d", "i", "a">>, <<"i", "n", " ", "j", "a", "p", "a", "n">>, <<"i", "n", " ", "u", "s", "a">>, <<"i", "n", " ", "c", "a", "l", "i", "f", "o", "r", "n", "i", "a">>, <<"i", "n", " ", "t", "o", "k", "y", "o">>, <<"i", "n", " ", "c", "h", "e", "n", "n", "a", "i">>,
      <<"i", "n", " ", "m", "u", "m", "b", "a", "i">>, <<"i", "n", " ", "d", "e", "l", "h", "i">>, <<"n", "e", "a", "r">>, <<"a", "r", "o", "u", "n", "d">> }

\* some pattern of OFF_TOPIC_PATTERNS is found in q by re.search
OFF_TOPIC_PATTERNS(q) ==
    \/ \E p \in Run0(q, AnyLit(q, Run0(q, Run1(q, {1}, DigitChars), WS),
                               {<<"+">>, <<"-">>, <<"*">>, <<"/">>}), WS) :
          p <= Len(q) /\ q[p] \in DigitChars
    \/ AnyLit(q, {1}, {<<"w", "h", "a", "t", " ", "i", "s">>, <<"d", "e", "f", "i", "n", "e">>, <<"e", "x", "p", "l", "a", "i", "n">>, <<"h", "o", "w", " ", "t", "o">>, <<"t", "u", "t", "o", "r", "i", "a", "l">>}) # {}
    \/ ContainsAny(q, {<<"d", "o", "c", "u", "m", "e", "n", "t", "a", "t", "i", "o", "n">>, <<"d", "o", "c", "s">>, <<"a", "p", "i", " ", "r", "e", "f", "e", "r", "e", "n", "c", "e">>, <<"l", "i", "b", "r", "a", "r", "y">>})
    \/ ContainsAny(q, {<<"c", "o", "d", "e">>, <<"p", "r", "o", "g", "r", "a", "m", "m", "i", "n", "g">>, <<"p", "y", "t", "h", "o", "n">>, <<"j", "a", "v", "a", "s", "c", "r", "i", "p", "t">>})
    \/ \E p \in Lit(q, Anywhere(q), <<"j", "a", "v", "a">>) : Boundary(q, p)
    \/ ContainsAny(q, {<<"r", "e", "c", "i", "p", "e">>, <<"c", "o", "o", "k">>, <<"f", "o", "o", "d">>, <<"r", "e", "s", "t", "a", "u", "r", "a", "n", "t">>})
    \/ ContainsAny(q, {<<"m", "o", "v", "i", "e">>, <<"m", "u", "s", "i", "c">>, <<"s", "o", "n", "g">>, <<"g", "a", "m", "e">>, <<"s", "p", "o", "r", "t">>})
    \/ ContainsAny(q, {<<"s", "t", "o", "c", "k">>, <<"c", "r", "y", "p", "t", "o">>, <<"b", "i", "t", "c", "o", "i", "n">>, <<"i", "n", "v", "e", "s", "t", "m", "e", "n", "t">>})
    \/ ContainsAny(q, {<<"j", "o", "k", "e">>, <<"f", "u", "n", "n", "y">>, <<"m", "e", "m", "e">>})
    \/ AnyLit(q, {1}, {<<"h", "i">>, <<"h", "e", "l", "l", "o">>, <<"h", "e", "y">>, <<"g", "o", "o", "d", " ", "m", "o", "r", "n", "i", "n", "g">>, <<"g", "o", "o", "d", " ", "e", "v", "e", "n", "i", "n", "g">>}) # {}
    \/ ContainsAny(q, {<<"w", "h", "o", " ", "a", "r", "e", " ", "y", "o", "u">>, <<"w", "h", "a", "t", " ", "a", "r", "e", " ", "y", "o", "u">>, <<"y", "o", "u", "r", " ", "n", "a", "m", "e">>})
    \/ ContainsAny(q, {<<"w", "e", "a", "t", "h", "e", "r", " ", "f", "o", "r", "e", "c", "a", "s", "t">>, <<"t", "e", "m", "p", "e", "r", "a", "t", "u", "r", "e", " ", "t", "o", "m", "o", "r", "r", "o", "w">>})

\* some pattern of TECH_OR_DEV_PATTERNS is found in q by re.search
TECH_OR_DEV_PATTERNS(q) ==
    LET howTo == Run1(q, Lit(q, Run1(q, Lit(q, Anywhere(q), <<"h", "o", "w">>), WS), <<"t", "o">>), WS)
        deploy == Lit(q, Anywhere(q), <<"d", "e", "p", "l", "o", "y">>)
        install == Run1(q, Lit(q, Anywhere(q), <<"i", "n", "s", "t", "a", "l", "l">>), WS)
    IN  \/ AnyLit(q, howTo, {<<"d", "e", "p", "l", "o", "y">>, <<"i", "n", "s", "t", "a", "l", "l">>, <<"b", "u", "i", "l", "d">>}) # {}
        \/ Lit(q, Run0(q, Lit(q, howTo, <<"s", "e", "t">>), WS), <<"u", "p">>) # {}
        \/ AnyLit(q, Run1(q, deploy \cup Lit(q, deploy, <<"i", "n", "g">>), WS),
                  {<<"a", "d", "k">>, <<"a", "g", "e", "n", "t">>, <<"m", "o", "d", "e", "l">>, <<"a", "p", "p">>, <<"a", "p", "p", "l", "i", "c", "a", "t", "i", "o", "n">>, <<"s", "e", "r", "v", "i", "c", "e">>}) # {}
        \/ \E p \in Anywhere(q) :
              /\ Boundary(q, p)
              /\ \E e \in AnyLit(q, {p}, {<<"a", "d", "k">>, <<"s", "d", "k">>, <<"d", "o", "c", "k", "e", "r">>, <<"d", "o", "c", "k", "e", "r", "f", "i", "l", "e">>, <<"r", "a", "i", "l", "w", "a", "y">>,
                                          <<"v", "e", "r", "c", "e", "l">>, <<"g", "i", "t", "h", "u", "b">>, <<"g", "i", "t", "l", "a", "b">>})
                          \cup Lit(q, Run0(q, Lit(q, {p}, <<"c", "l", "o", "u", "d">>), WS), <<"r", "u", "n">>) :
                    Boundary(q, e)
        \/ AnyLit(q, Run1(q, Lit(q, Anywhere(q), <<"c", "o", "d", "e">>), WS),
                  {<<"s", "a", "m", "p", "l", "e">>, <<"s", "n", "i", "p", "p", "e", "t">>, <<"e", "x", "a", "m", "p", "l", "e">>}) # {}
        \/ Lit(q, Run1(q, AnyLit(q, Anywhere(q), {<<"w", "r", "i", "t", "e">>, <<"g", "e", "n", "e", "r", "a", "t", "e">>}), WS), <<"c", "o", "d", "e">>) # {}
        \/ AnyLit(q, Run1(q, Lit(q, Anywhere(q), <<"a", "p", "i">>), WS), {<<"k", "e", "y">>, <<"k", "e", "y", "s">>}) # {}
        \/ AnyLit(q, Run1(q, AnyLit(q, Anywhere(q), {<<"d", "o", "c", "u", "m", "e", "n", "t", "a", "t", "i", "o", "n">>, <<"d", "o", "c", "s">>, <<"t", "u", "t", "o", "r", "i", "a", "l">>,
                                                     <<"g", "u", "i", "d", "e">>}), WS),
                  {<<"f", "o", "r">>, <<"a", "b", "o", "u", "t">>}) # {}
        \/ Lit(q, install \cup Run1(q, Lit(q, install, <<"t", "h", "e">>), WS), <<"d", "e", "p", "e", "n", "d", "e", "n", "c", "i", "e", "s">>) # {}

\* any(ind in query_lower for ind in location_indicators)
location_indicators(q) ==
    ContainsAny(q, {<<"i", "n">>, <<"a", "t">>, <<"n", "e", "a", "r">>, <<"a", "r", "o", "u", "n", "d">>, <<"h", "a", "p", "p", "e", "n", "i", "n", "g">>})

\* any(re.search(p, query_lower) for p in situation_patterns)
situation_patterns(q) ==
    \/ q # <<>> /\ q[Len(q)] = "?"
    \/ Run1(q, Lit(q, {1}, <<"i", "s">>), WS) # {}
    \/ Run1(q, Lit(q, {1}, <<"a", "r", "e">>), WS) # {}
    \/ Lit(q, Run0(q, Lit(q, {1}, <<"w", "h", "a", "t">>), {q[i] : i \in 1..Len(q)} \ {LF}), <<"h", "a", "p", "p", "e", "n", "i", "n", "g">>) # {}
    \/ ContainsAny(q, {<<"s", "i", "t", "u", "a", "t", "i", "o", "n">>, <<"s", "t", "a", "t", "u", "s">>, <<"u", "p", "d", "a", "t", "e">>, <<"n", "e", "w", "s">>, <<"r", "e", "p", "o", "r", "t">>})

\* the result with everything valid that is not off-topic
Validation_valid_unless_off_topic(is_valid, reason, category) ==
    [is_valid |-> category # "off_topic", reason |-> reason, category |-> category]

Validation(is_valid, reason, category) ==
    [is_valid |-> is_valid, reason |-> reason, category |-> category]

validate_query_keyword_first(query) ==
    LET query_lower == StripChars(Lower(query), WS)
    IN  IF Len(query_lower) < 5
        THEN Validation(FALSE, <<"Q", "u", "e", "r", "y", " ", "i", "s", " ", "t", "o", "o", " ", "s", "h", "o", "r", "t", ".", " ", "P", "l", "e", "a", "s", "e", " ", "p", "r", "o", "v", "i", "d", "e", " ", "m", "o", "r", "e", " ", "d", "e", "t", "a", "i", "l", "s", " ", "a", "b", "o", "u", "t", " ", "t", "h", "e", " ", "d", "i", "s", "a", "s", "t", "e", "r", " ", "s", "i", "t", "u", "a", "t", "i", "o", "n", " ", "y", "o", "u", " ", "w", "a", "n", "t", " ", "t", "o", " ", "v", "e", "r", "i", "f", "y", ".">>, "unclear")
        ELSE IF ContainsAny(query_lower, DISASTER_KEYWORDS)
        THEN Validation(TRUE, <<"Q", "u", "e", "r", "y", " ", "i", "s", " ", "d", "i", "s", "a", "s", "t", "e", "r", "-", "r", "e", "l", "a", "t", "e", "d">>, "disaster")
        ELSE IF OFF_TOPIC_PATTERNS(query_lower)
        THEN Validation(FALSE, <<"I", "'", "m", " ", "I", "n", "f", "o", "S", "h", "i", "e", "l", "d", " ", "A", "I", ",", " ", "s", "p", "e", "c", "i", "a", "l", "i", "z", "e", "d", " ", "i", "n", " ", "d", "i", "s", "a", "s", "t", "e", "r", " ", "i", "n", "f", "o", "r", "m", "a", "t", "i", "o", "n", " ", "v", "e", "r", "i", "f", "i", "c", "a", "t", "i", "o", "n", ".", " ", "I", " ", "c", "a", "n", " ", "h", "e", "l", "p", " ", "y", "o", "u", " ", "v", "e", "r", "i", "f", "y", " ", "d", "i", "s", "a", "s", "t", "e", "r", " ", "r", "e", "p", "o", "r", "t", "s", ",", " ", "c", "h", "e", "c", "k", " ", "e", "m", "e", "r", "g", "e", "n", "c", "y", " ", "s", "i", "t", "u", "a", "t", "i", "o", "n", "s", ",", " ", "a", "n", "d", " ", "p", "r", "o", "v", "i", "d", "e", " ", "s", "a", "f", "e", "t", "y", " ", "i", "n", "f", "o", "r", "m", "a", "t", "i", "o", "n", ".", " ", "P", "l", "e", "a", "s", "e", " ", "a", "s", "k", " ", "a", "b", "o", "u", "t", " ", "a", " ", "s", "p", "e", "c", "i", "f", "i", "c", " ", "d", "i", "s", "a", "s", "t", "e", "r", " ", "o", "r", " ", "e", "m", "e", "r", "g", "e", "n", "c", "y", " ", "s", "i", "t", "u", "a", "t", "i", "o", "n", ".">>, "off_topic")
        ELSE IF TECH_OR_DEV_PATTERNS(query_lower)
        THEN Validation(FALSE, <<"I", " ", "c", "a", "n", "'", "t", " ", "s", "w", "i", "t", "c", "h", " ", "t", "o", " ", "d", "e", "v", "e", "l", "o", "p", "m", "e", "n", "t", " ", "o", "r", " ", "d", "e", "p", "l", "o", "y", "m", "e", "n", "t", " ", "s", "u", "p", "p", "o", "r", "t", ".", " ", "P", "l", "e", "a", "s", "e", " ", "k", "e", "e", "p", " ", "t", "h", "e", " ", "c", "o", "n", "v", "e", "r", "s", "a", "t", "i", "o", "n", " ", "f", "o", "c", "u", "s", "e", "d", " ", "o", "n", " ", "v", "e", "r", "i", "f", "y", "i", "n", "g", " ", "a", "n", " ", "a", "c", "t", "u", "a", "l", " ", "d", "i", "s", "a", "s", "t", "e", "r", " ", "s", "i", "t", "u", "a", "t", "i", "o", "n", ".">>, "off_topic")
        ELSE IF location_indicators(query_lower) /\ situation_patterns(query_lower)
        THEN Validation(TRUE, <<"Q", "u", "e", "r", "y", " ", "a", "p", "p", "e", "a", "r", "s", " ", "t", "o", " ", "b", "e", " ", "a", "b", "o", "u", "t", " ", "a", " ", "s", "i", "t", "u", "a", "t", "i", "o", "n", " ", "a", "t", " ", "a", " ", "l", "o", "c", "a", "t", "i", "o", "n">>, "disaster")
        ELSE Validation(FALSE, <<"I", "'", "m", " ", "I", "n", "f", "o", "S", "h", "i", "e", "l", "d", " ", "A", "I", ",", " ", "d", "e", "s", "i", "g", "n", "e", "d", " ", "s", "p", "e", "c", "i", "f", "i", "c", "a", "l", "l", "y", " ", "f", "o", "r", " ", "d", "i", "s", "a", "s", "t", "e", "r", " ", "i", "n", "f", "o", "r", "m", "a", "t", "i", "o", "n", " ", "v", "e", "r", "i", "f", "i", "c", "a", "t", "i", "o", "n", ".", " ", "I", " ", "c", "a", "n", " ", "h", "e", "l", "p", " ", "y", "o", "u", ":", "\n", "\n", "U+2022", " ", "V", "e", "r", "i", "f", "y", " ", "d", "i", "s", "a", "s", "t", "e", "r", " ", "r", "e", "p", "o", "r", "t", "s", " ", "(", "f", "l", "o", "o", "d", "s", ",", " ", "e", "a", "r", "t", "h", "q", "u", "a", "k", "e", "s", ",", " ", "f", "i", "r", "e", "s", ",", " ", "s", "t", "o", "r", "m", "s", ")", "\n", "U+2022", " ", "C", "h", "e", "c", "k", " ", "e", "m", "e", "r", "g", "e", "n", "c", "y", " ", "s", "i", "t", "u", "a", "t", "i", "o", "n", "s", " ", "i", "n", " ", "s", "p", "e", "c", "i", "f", "i", "c", " ", "l", "o", "c", "a", "t", "i", "o", "n", "s", "\n", "U+2022", " ", "A", "s", "s", "e", "s", "s", " ", "t", "h", "e", " ", "c", "r", "e", "d", "i", "b", "i", "l", "i", "t", "y", " ", "o", "f", " ", "d", "i", "s", "a", "s", "t", "e", "r", "-", "r", "e", "l", "a", "t", "e", "d", " ", "n", "e", "w", "s", "\n", "U+2022", " ", "P", "r", "o", "v", "i", "d", "e", " ", "s", "a", "f", "e", "t", "y", " ", "i", "n", "f", "o", "r", "m", "a", "t", "i", "o", "n", " ", "d", "u", "r", "i", "n", "g", " ", "e", "m", "e", "r", "g", "e", "n", "c", "i", "e", "s", "\n", "\n", "P", "l", "e", "a", "s", "e", " ", "a", "s", "k", " ", "a", "b", "o", "u", "t", " ", "a", " ", "s", "p", "e", "c", "i", "f", "i", "c", " ", "d", "i", "s", "a", "s", "t", "e", "r", " ", "o", "r", " ", "e", "m", "e", "r", "g", "e", "n", "c", "y", " ", "s", "i", "t", "u", "a", "t", "i", "o", "n", " ", "y", "o", "u", "'", "d", " ", "l", "i", "k", "e", " ", "m", "e", " ", "t", "o", " ", "v", "e", "r", "i", "f", "y", ".">>, "unclear")

validate_query_without_tech(query) ==
    LET query_lower == StripChars(Lower(query), WS)
    IN  IF Len(query_lower) < 5
        THEN Validation(FALSE, <<"Q", "u", "e", "r", "y", " ", "i", "s", " ", "t", "o", "o", " ", "s", "h", "o", "r", "t", ".", " ", "P", "l", "e", "a", "s", "e", " ", "p", "r", "o", "v", "i", "d", "e", " ", "m", "o", "r", "e", " ", "d", "e", "t", "a", "i", "l", "s", " ", "a", "b", "o", "u", "t", " ", "t", "h", "e", " ", "d", "i", "s", "a", "s", "t", "e", "r", " ", "s", "i", "t", "u", "a", "t", "i", "o", "n", " ", "y", "o", "u", " ", "w", "a", "n", "t", " ", "t", "o", " ", "v", "e", "r", "i", "f", "y", ".">>, "unclear")
        ELSE IF OFF_TOPIC_PATTERNS(query_lower)
        THEN Validation(FALSE, <<"I", "'", "m", " ", "I", "n", "f", "o", "S", "h", "i", "e", "l", "d", " ", "A", "I", ",", " ", "s", "p", "e", "c", "i", "a", "l", "i", "z", "e", "d", " ", "i", "n", " ", "d", "i", "s", "a", "s", "t", "e", "r", " ", "i", "n", "f", "o", "r", "m", "a", "t", "i", "o", "n", " ", "v", "e", "r", "i", "f", "i", "c", "a", "t", "i", "o", "n", ".", " ", "I", " ", "c", "a", "n", " ", "h", "e", "l", "p", " ", "y", "o", "u", " ", "v", "e", "r", "i", "f", "y", " ", "d", "i", "s", "a", "s", "t", "e", "r", " ", "r", "e", "p", "o", "r", "t", "s", ",", " ", "c", "h", "e", "c", "k", " ", "e", "m", "e", "r", "g", "e", "n", "c", "y", " ", "s", "i", "t", "u", "a", "t", "i", "o", "n", "s", ",", " ", "a", "n", "d", " ", "p", "r", "o", "v", "i", "d", "e", " ", "s", "a", "f", "e", "t", "y", " ", "i", "n", "f", "o", "r", "m", "a", "t", "i", "o", "n", ".", " ", "P", "l", "e", "a", "s", "e", " ", "a", "s", "k", " ", "a", "b", "o", "u", "t", " ", "a", " ", "s", "p", "e", "c", "i", "f", "i", "c", " ", "d", "i", "s", "a", "s", "t", "e", "r", " ", "o", "r", " ", "e", "m", "e", "r", "g", "e", "n", "c", "y", " ", "s", "i", "t", "u", "a", "t", "i", "o", "n", ".">>, "off_topic")
        ELSE IF ContainsAny(query_lower, DISASTER_KEYWORDS)
        THEN Validation(TRUE, <<"Q", "u", "e", "r", "y", " ", "i", "s", " ", "d", "i", "s", "a", "s", "t", "e", "r", "-", "r", "e", "l", "a", "t", "e", "d">>, "disaster")
        ELSE IF location_indicators(query_lower) /\ situation_patterns(query_lower)
        THEN Validation(TRUE, <<"Q", "u", "e", "r", "y", " ", "a", "p", "p", "e", "a", "r", "s", " ", "t", "o", " ", "b", "e", " ", "a", "b", "o", "u", "t", " ", "a", " ", "s", "i", "t", "u", "a", "t", "i", "o", "n", " ", "a", "t", " ", "a", " ", "l", "o", "c", "a", "t", "i", "o", "n">>, "disaster")
        ELSE Validation(FALSE, <<"I", "'", "m", " ", "I", "n", "f", "o", "S", "h", "i", "e", "l", "d", " ", "A", "I", ",", " ", "d", "e", "s", "i", "g", "n", "e", "d", " ", "s", "p", "e", "c", "i", "f", "i", "c", "a", "l", "l", "y", " ", "f", "o", "r", " ", "d", "i", "s", "a", "s", "t", "e", "r", " ", "i", "n", "f", "o", "r", "m", "a", "t", "i", "o", "n", " ", "v", "e", "r", "i", "f", "i", "c", "a", "t", "i", "o", "n", ".", " ", "I", " ", "c", "a", "n", " ", "h", "e", "l", "p", " ", "y", "o", "u", ":", "\n", "\n", "U+2022", " ", "V", "e", "r", "i", "f", "y", " ", "d", "i", "s", "a", "s", "t", "e", "r", " ", "r", "e", "p", "o", "r", "t", "s", " ", "(", "f", "l", "o", "o", "d", "s", ",", " ", "e", "a", "r", "t", "h", "q", "u", "a", "k", "e", "s", ",", " ", "f", "i", "r", "e", "s", ",", " ", "s", "t", "o", "r", "m", "s", ")", "\n", "U+2022", " ", "C", "h", "e", "c", "k", " ", "e", "m", "e", "r", "g", "e", "n", "c", "y", " ", "s", "i", "t", "u", "a", "t", "i", "o", "n", "s", " ", "i", "n", " ", "s", "p", "e", "c", "i", "f", "i", "c", " ", "l", "o", "c", "a", "t", "i", "o", "n", "s", "\n", "U+2022", " ", "A", "s", "s", "e", "s", "s", " ", "t", "h", "e", " ", "c", "r", "e", "d", "i", "b", "i", "l", "i", "t", "y", " ", "o", "f", " ", "d", "i", "s", "a", "s", "t", "e", "r", "-", "r", "e", "l", "a", "t", "e", "d", " ", "n", "e", "w", "s", "\n", "U+2022", " ", "P", "r", "o", "v", "i", "d", "e", " ", "s", "a", "f", "e", "t", "y", " ", "i", "n", "f", "o", "r", "m", "a", "t", "i", "o", "n", " ", "d", "u", "r", "i", "n", "g", " ", "e", "m", "e", "r", "g", "e", "n", "c", "i", "e", "s", "\n", "\n", "P", "l", "e", "a", "s", "e", " ", "a", "s", "k", " ", "a", "b", "o", "u", "t", " ", "a", " ", "s", "p", "e", "c", "i", "f", "i", "c", " ", "d", "i", "s", "a", "s", "t", "e", "r", " ", "o", "r", " ", "e", "m", "e", "r", "g", "e", "n", "c", "y", " ", "s", "i", "t", "u", "a", "t", "i", "o", "n", " ", "y", "o", "u", "'", "d", " ", "l", "i", "k", "e", " ", "m", "e", " ", "t", "o", " ", "v", "e", "r", "i", "f", "y", ".">>, "unclear")

validate_query(query) ==
    LET query_lower == StripChars(Lower(query), WS)
    IN  IF Len(query_lower) < 5
        THEN Validation(FALSE, <<"Q", "u", "e", "r", "y", " ", "i", "s", " ", "t", "o", "o", " ", "s", "h", "o", "r", "t", ".", " ", "P", "l", "e", "a", "s", "e", " ", "p", "r", "o", "v", "i", "d", "e", " ", "m", "o", "r", "e", " ", "d", "e", "t", "a", "i", "l", "s", " ", "a", "b", "o", "u", "t", " ", "t", "h", "e", " ", "d", "i", "s", "a", "s", "t", "e", "r", " ", "s", "i", "t", "u", "a", "t", "i", "o", "n", " ", "y", "o", "u", " ", "w", "a", "n", "t", " ", "t", "o", " ", "v", "e", "r", "i", "f", "y", ".">>, "unclear")
        ELSE IF OFF_TOPIC_PATTERNS(query_lower)
        THEN Validation(FALSE, <<"I", "'", "m", " ", "I", "n", "f", "o", "S", "h", "i", "e", "l", "d", " ", "A", "I", ",", " ", "s", "p", "e", "c", "i", "a", "l", "i", "z", "e", "d", " ", "i", "n", " ", "d", "i", "s", "a", "s", "t", "e", "r", " ", "i", "n", "f", "o", "r", "m", "a", "t", "i", "o", "n", " ", "v", "e", "r", "i", "f", "i", "c", "a", "t", "i", "o", "n", ".", " ", "I", " ", "c", "a", "n", " ", "h", "e", "l", "p", " ", "y", "o", "u", " ", "v", "e", "r", "i", "f", "y", " ", "d", "i", "s", "a", "s", "t", "e", "r", " ", "r", "e", "p", "o", "r", "t", "s", ",", " ", "c", "h", "e", "c", "k", " ", "e", "m", "e", "r", "g", "e", "n", "c", "y", " ", "s", "i", "t", "u", "a", "t", "i", "o", "n", "s", ",", " ", "a", "n", "d", " ", "p", "r", "o", "v", "i", "d", "e", " ", "s", "a", "f", "e", "t", "y", " ", "i", "n", "f", "o", "r", "m", "a", "t", "i", "o", "n", ".", " ", "P", "l", "e", "a", "s", "e", " ", "a", "s", "k", " ", "a", "b", "o", "u", "t", " ", "a", " ", "s", "p", "e", "c", "i", "f", "i", "c", " ", "d", "i", "s", "a", "s", "t", "e", "r", " ", "o", "r", " ", "e", "m", "e", "r", "g", "e", "n", "c", "y", " ", "s", "i", "t", "u", "a", "t", "i", "o", "n", ".">>, "off_topic")
        ELSE IF TECH_OR_DEV_PATTERNS(query_lower)
        THEN Validation(FALSE, <<"I", " ", "c", "a", "n", "'", "t", " ", "s", "w", "i", "t", "c", "h", " ", "t", "o", " ", "d", "e", "v", "e", "l", "o", "p", "m", "e", "n", "t", " ", "o", "r", " ", "d", "e", "p", "l", "o", "y", "m", "e", "n", "t", " ", "s", "u", "p", "p", "o", "r", "t", ".", " ", "P", "l", "e", "a", "s", "e", " ", "k", "e", "e", "p", " ", "t", "h", "e", " ", "c", "o", "n", "v", "e", "r", "s", "a", "t", "i", "o", "n", " ", "f", "o", "c", "u", "s", "e", "d", " ", "o", "n", " ", "v", "e", "r", "i", "f", "y", "i", "n", "g", " ", "a", "n", " ", "a", "c", "t", "u", "a", "l", " ", "d", "i", "s", "a", "s", "t", "e", "r", " ", "s", "i", "t", "u", "a", "t", "i", "o", "n", ".">>, "off_topic")
        ELSE IF ContainsAny(query_lower, DISASTER_KEYWORDS)
        THEN Validation(TRUE, <<"Q", "u", "e", "r", "y", " ", "i", "s", " ", "d", "i", "s", "a", "s", "t", "e", "r", "-", "r", "e", "l", "a", "t", "e", "d">>, "disaster")
        ELSE IF location_indicators(query_lower) /\ situation_patterns(query_lower)
        THEN Validation(TRUE, <<"Q", "u", "e", "r", "y", " ", "a", "p", "p", "e", "a", "r", "s", " ", "t", "o", " ", "b", "e", " ", "a", "b", "o", "u", "t", " ", "a", " ", "s", "i", "t", "u", "a", "t", "i", "o", "n", " ", "a", "t", " ", "a", " ", "l", "o", "c", "a", "t", "i", "o", "n">>, "disaster")
        ELSE Validation(FALSE, <<"I", "'", "m", " ", "I", "n", "f", "o", "S", "h", "i", "e", "l", "d", " ", "A", "I", ",", " ", "d", "e", "s", "i", "g", "n", "e", "d", " ", "s", "p", "e", "c", "i", "f", "i", "c", "a", "l", "l", "y", " ", "f", "o", "r", " ", "d", "i", "s", "a", "s", "t", "e", "r", " ", "i", "n", "f", "o", "r", "m", "a", "t", "i", "o", "n", " ", "v", "e", "r", "i", "f", "i", "c", "a", "t", "i", "o", "n", ".", " ", "I", " ", "c", "a", "n", " ", "h", "e", "l", "p", " ", "y", "o", "u", ":", "\n", "\n", "U+2022", " ", "V", "e", "r", "i", "f", "y", " ", "d", "i", "s", "a", "s", "t", "e", "r", " ", "r", "e", "p", "o", "r", "t", "s", " ", "(", "f", "l", "o", "o", "d", "s", ",", " ", "e", "a", "r", "t", "h", "q", "u", "a", "k", "e", "s", ",", " ", "f", "i", "r", "e", "s", ",", " ", "s", "t", "o", "r", "m", "s", ")", "\n", "U+2022", " ", "C", "h", "e", "c", "k", " ", "e", "m", "e", "r", "g", "e", "n", "c", "y", " ", "s", "i", "t", "u", "a", "t", "i", "o", "n", "s", " ", "i", "n", " ", "s", "p", "e", "c", "i", "f", "i", "c", " ", "l", "o", "c", "a", "t", "i", "o", "n", "s", "\n", "U+2022", " ", "A", "s", "s", "e", "s", "s", " ", "t", "h", "e", " ", "c", "r", "e", "d", "i", "b", "i", "l", "i", "t", "y", " ", "o", "f", " ", "d", "i", "s", "a", "s", "t", "e", "r", "-", "r", "e", "l", "a", "t", "e", "d", " ", "n", "e", "w", "s", "\n", "U+2022", " ", "P", "r", "o", "v", "i", "d", "e", " ", "s", "a", "f", "e", "t", "y", " ", "i", "n", "f", "o", "r", "m", "a", "t", "i", "o", "n", " ", "d", "u", "r", "i", "n", "g", " ", "e", "m", "e", "r", "g", "e", "n", "c", "i", "e", "s", "\n", "\n", "P", "l", "e", "a", "s", "e", " ", "a", "s", "k", " ", "a", "b", "o", "u", "t", " ", "a", " ", "s", "p", "e", "c", "i", "f", "i", "c", " ", "d", "i", "s", "a", "s", "t", "e", "r", " ", "o", "r", " ", "e", "m", "e", "r", "g", "e", "n", "c", "y", " ", "s", "i", "t", "u", "a", "t", "i", "o", "n", " ", "y", "o", "u", "'", "d", " ", "l", "i", "k", "e", " ", "m", "e", " ", "t", "o", " ", "v", "e", "r", "i", "f", "y", ".">>, "unclear")

get_rejection_response(validation_result) ==
    <<"*", "*", "U+1F6E1", "U+FE0F", " ", "I", "n", "f", "o", "S", "h", "i", "e", "l", "d", " ", "A", "I", " ", "-", " ", "Q", "u", "e", "r", "y", " ", "O", "u", "t", "s", "i", "d", "e", " ", "S", "c", "o", "p", "e", "*", "*", "\n", "\n">> \o validation_result.reason
    \o <<"\n", "\n", "*", "*", "E", "x", "a", "m", "p", "l", "e", " ", "q", "u", "e", "r", "i", "e", "s", " ", "I", " ", "c", "a", "n", " ", "h", "e", "l", "p", " ", "w", "i", "t", "h", ":", "*", "*", "\n", "-", " ", "\"", "I", "s", " ", "t", "h", "e", "r", "e", " ", "f", "l", "o", "o", "d", "i", "n", "g", " ", "i", "n", " ", "C", "h", "e", "n", "n", "a", "i", " ", "r", "i", "g", "h", "t", " ", "n", "o", "w", "?", "\"", "\n", "-", " ", "\"", "E", "a", "r", "t", "h", "q", "u", "a", "k", "e", " ", "n", "e", "a", "r", " ", "T", "o", "k", "y", "o", " ", "-", " ", "i", "s", " ", "t", "h", "i", "s", " ", "r", "e", "a", "l", "?", "\"", "\n", "-", " ", "\"", "W", "h", "a", "t", "'", "s", " ", "t", "h", "e", " ", "s", "t", "a", "t", "u", "s", " ", "o", "f", " ", "t", "h", "e", " ", "C", "a", "l", "i", "f", "o", "r", "n", "i", "a", " ", "w", "i", "l", "d", "f", "i", "r", "e", "s", "?", "\"", "\n", "-", " ", "\"", "I", "s", " ", "t", "h", "e", " ", "t", "s", "u", "n", "a", "m", "i", " ", "w", "a", "r", "n", "i", "n", "g", " ", "i", "n", " ", "J", "a", "p", "a", "n", " ", "g", "e", "n", "u", "i", "n", "e", "?", "\"", "\n", "\n", "-", "-", "-", "\n", "*", "I", "n", "f", "o", "S", "h", "i", "e", "l", "d", " ", "A", "I", " ", "f", "o", "c", "u", "s", "e", "s", " ", "e", "x", "c", "l", "u", "s", "i", "v", "e", "l", "y", " ", "o", "n", " ", "d", "i", "s", "a", "s", "t", "e", "r", " ", "v", "e", "r", "i", "f", "i", "c", "a", "t", "i", "o", "n", " ", "t", "o", " ", "e", "n", "s", "u", "r", "e", " ", "a", "c", "c", "u", "r", "a", "t", "e", ",", " ", "l", "i", "f", "e", "-", "s", "a", "v", "i", "n", "g", " ", "i", "n", "f", "o", "r", "m", "a", "t", "i", "o", "n", ".", "*", "\n">>

(***************************************************************************)
(* agents/runner.py and agent.py: what the three entry points do with the  *)
(* final response.  entry names the entry point.                           *)
(***************************************************************************)
EntryPoints == {"MultiAgentRunner", "InfoShieldRunner", "run_query_async"}

CREDIBILITY_THRESHOLD == 60

\* the return value None of _extract_credibility_score
NoScore == 0 - 1

ERROR_MESSAGES ==
    [api_error |-> <<"I", " ", "a", "p", "o", "l", "o", "g", "i", "z", "e", ",", " ", "b", "u", "t", " ", "I", "'", "m", " ", "e", "x", "p", "e", "r", "i", "e", "n", "c", "i", "n", "g", " ", "t", "e", "c", "h", "n", "i", "c", "a", "l", " ", "d", "i", "f", "f", "i", "c", "u", "l", "t", "i", "e", "s", " ", "c", "o", "n", "n", "e", "c", "t", "i", "n", "g", " ", "t", "o", " ", "m", "y", " ", "v", "e", "r", "i", "f", "i", "c", "a", "t", "i", "o", "n", " ", "s", "o", "u", "r", "c", "e", "s", ".", " ", "P", "l", "e", "a", "s", "e", " ", "t", "r", "y", " ", "a", "g", "a", "i", "n", " ", "i", "n", " ", "a", " ", "m", "o", "m", "e", "n", "t", ".", " ", "I", "f", " ", "t", "h", "i", "s", " ", "i", "s", " ", "a", "n", " ", "e", "m", "e", "r", "g", "e", "n", "c", "y", ",", " ", "p", "l", "e", "a", "s", "e", " ", "c", "o", "n", "t", "a", "c", "t", " ", "l", "o", "c", "a", "l", " ", "e", "m", "e", "r", "g", "e", "n", "c", "y", " ", "s", "e", "r", "v", "i", "c", "e", "s", " ", "d", "i", "r", "e", "c", "t", "l", "y", ".">>,
     timeout |-> <<"T", "h", "e", " ", "v", "e", "r", "i", "f", "i", "c", "a", "t", "i", "o", "n", " ", "i", "s", " ", "t", "a", "k", "i", "n", "g", " ", "l", "o", "n", "g", "e", "r", " ", "t", "h", "a", "n", " ", "e", "x", "p", "e", "c", "t", "e", "d", ".", " ", "F", "o", "r", " ", "u", "r", "g", "e", "n", "t", " ", "s", "i", "t", "u", "a", "t", "i", "o", "n", "s", ",", " ", "p", "l", "e", "a", "s", "e", " ", "c", "o", "n", "t", "a", "c", "t", " ", "e", "m", "e", "r", "g", "e", "n", "c", "y", " ", "s", "e", "r", "v", "i", "c", "e", "s", " ", "(", "9", "1", "1", "/", "1", "1", "2", ")", " ", "w", "h", "i", "l", "e", " ", "I", " ", "c", "o", "n", "t", "i", "n", "u", "e", " ", "p", "r", "o", "c", "e", "s", "s", "i", "n", "g", ".">>,
     no_response |-> <<"I", " ", "w", "a", "s", "n", "'", "t", " ", "a", "b", "l", "e", " ", "t", "o", " ", "g", "e", "n", "e", "r", "a", "t", "e", " ", "a", " ", "c", "o", "m", "p", "l", "e", "t", "e", " ", "r", "e", "s", "p", "o", "n", "s", "e", ".", " ", "P", "l", "e", "a", "s", "e", " ", "t", "r", "y", " ", "r", "e", "p", "h", "r", "a", "s", "i", "n", "g", " ", "y", "o", "u", "r", " ", "q", "u", "e", "r", "y", " ", "o", "r", " ", "c", "o", "n", "t", "a", "c", "t", " ", "e", "m", "e", "r", "g", "e", "n", "c", "y", " ", "s", "e", "r", "v", "i", "c", "e", "s", " ", "i", "f", " ", "t", "h", "i", "s", " ", "i", "s", " ", "u", "r", "g", "e", "n", "t", ".">>,
     rate_limit |-> <<"I", "'", "m", " ", "c", "u", "r", "r", "e", "n", "t", "l", "y", " ", "h", "a", "n", "d", "l", "i", "n", "g", " ", "m", "a", "n", "y", " ", "r", "e", "q", "u", "e", "s", "t", "s", ".", " ", "P", "l", "e", "a", "s", "e", " ", "w", "a", "i", "t", " ", "a", " ", "m", "o", "m", "e", "n", "t", " ", "a", "n", "d", " ", "t", "r", "y", " ", "a", "g", "a", "i", "n", ".", " ", "F", "o", "r", " ", "e", "m", "e", "r", "g", "e", "n", "c", "i", "e", "s", ",", " ", "c", "o", "n", "t", "a", "c", "t", " ", "l", "o", "c", "a", "l", " ", "e", "m", "e", "r", "g", "e", "n", "c", "y", " ", "s", "e", "r", "v", "i", "c", "e", "s", ".">>,
     agent_error |-> <<"O", "n", "e", " ", "o", "f", " ", "m", "y", " ", "s", "p", "e", "c", "i", "a", "l", "i", "z", "e", "d", " ", "a", "g", "e", "n", "t", "s", " ", "e", "n", "c", "o", "u", "n", "t", "e", "r", "e", "d", " ", "a", "n", " ", "i", "s", "s", "u", "e", ".", " ", "I", "'", "l", "l", " ", "p", "r", "o", "v", "i", "d", "e", " ", "t", "h", "e", " ", "b", "e", "s", "t", " ", "i", "n", "f", "o", "r", "m", "a", "t", "i", "o", "n", " ", "a", "v", "a", "i", "l", "a", "b", "l", "e", ".">>]

\* the position after the run of digits that starts at g
DigitsEnd(s, g) ==
    CHOOSE e \in g..(Len(s) + 1) :
        /\ \A k \in g..(e - 1) : s[k] \in DigitChars
        /\ (e = Len(s) + 1 \/ s[e] \notin DigitChars)

\* (\d+)/100 at g
ScoreOf100(s, g) ==
    g <= Len(s) /\ s[g] \in DigitChars /\ OccursAt(s, <<"/", "1", "0", "0">>, DigitsEnd(s, g))

\* the patterns of _extract_credibility_score, in the order they are tried
patterns(entry) ==
    IF entry = "MultiAgentRunner"
    THEN <<"Credibility Score\\s*[|\\t]\\s*(\\d+)/100", "Credibility Score\\s*\\|\\s*(\\d+)/100",
           "Score[:\\s]+(\\d+)/100", "credibility[:\\s]+(\\d+)", "(\\d+)/100.*credibility">>
    ELSE <<"Credibility Score\\s*\\|\\s*(\\d+)/100", "Credibility Score[:\\s]+(\\d+)",
           "credibility[:\\s]+(\\d+)", "(\\d+)/100.*credibility">>

\* where group 1 starts when the pattern matches the lowered text s from p
GroupStarts(pattern, s, p) ==
    CASE pattern = "Credibility Score\\s*[|\\t]\\s*(\\d+)/100" ->
            {g \in Run0(s, AnyLit(s, Run0(s, Lit(s, {p}, <<"c", "r", "e", "d", "i", "b", "i", "l", "i", "t", "y", " ", "s", "c", "o", "r", "e">>), WS),
                                  {<<"|">>, <<"\t">>}), WS) : ScoreOf100(s, g)}
      [] pattern = "Credibility Score\\s*\\|\\s*(\\d+)/100" ->
            {g \in Run0(s, Lit(s, Run0(s, Lit(s, {p}, <<"c", "r", "e", "d", "i", "b", "i", "l", "i", "t", "y", " ", "s", "c", "o", "r", "e">>), WS), <<"|">>), WS) :
                ScoreOf100(s, g)}
      [] pattern = "Score[:\\s]+(\\d+)/100" ->
            {g \in Run1(s, Lit(s, {p}, <<"s", "c", "o", "r", "e">>), WS \cup {":"}) : ScoreOf100(s, g)}
      [] pattern = "Credibility Score[:\\s]+(\\d+)" ->
            {g \in Run1(s, Lit(s, {p}, <<"c", "r", "e", "d", "i", "b", "i", "l", "i", "t", "y", " ", "s", "c", "o", "r", "e">>), WS \cup {":"}) :
                g <= Len(s) /\ s[g] \in DigitChars}
      [] pattern = "credibility[:\\s]+(\\d+)" ->
            {g \in Run1(s, Lit(s, {p}, <<"c", "r", "e", "d", "i", "b", "i", "l", "i", "t", "y">>), WS \cup {":"}) :
                g <= Len(s) /\ s[g] \in DigitChars}
      [] pattern = "(\\d+)/100.*credibility" ->
            {g \in {p} :
                /\ ScoreOf100(s, g)
                /\ Lit(s, Run0(s, {DigitsEnd(s, g) + 4}, {s[i] : i \in 1..Len(s)} \ {LF}),
                       <<"c", "r", "e", "d", "i", "b", "i", "l", "i", "t", "y">>) # {}}

\* _extract_credibility_score of runner.py (entry MultiAgentRunner) and of agent.py
_extract_credibility_score(entry, response) ==
    LET s == Lower(response)
        hits(pattern) == {p \in 1..Len(s) : GroupStarts(pattern, s, p) # {}}
        found == SelectSeq(patterns(entry), LAMBDA pattern : hits(pattern) # {})
    IN  IF found = <<>> THEN NoScore
        ELSE LET p == CHOOSE x \in hits(found[1]) : \A y \in hits(found[1]) : x <= y
                 g == CHOOSE x \in GroupStarts(found[1], s, p) :
                         \A y \in GroupStarts(found[1], s, p) : x <= y
             IN  StrToInt(SubSeq(s, g, DigitsEnd(s, g) - 1))

\* _extract_location of runner.py (entry MultiAgentRunner) and of agent.py
_extract_location(entry, query) ==
    LET words == IF entry = "MultiAgentRunner" THEN Split(query) ELSE Split(Lower(query))
        preps == IF entry = "MultiAgentRunner" THEN {<<"i", "n">>, <<"a", "t">>, <<"n", "e", "a", "r">>}
                 ELSE {<<"i", "n">>, <<"a", "t">>, <<"n", "e", "a", "r">>, <<"a", "r", "o", "u", "n", "d">>}
        at == {i \in 1..(Len(words) - 1) : Lower(words[i]) \in preps}
    IN  IF at = {} THEN <<"U", "n", "k", "n", "o", "w", "n">>
        ELSE LET i == CHOOSE x \in at : \A y \in at : x <= y
             IN  StripChars(Join(SubSeq(words, i + 1, IF i + 2 <= Len(words) THEN i + 2 ELSE i + 1),
                                 <<" ">>),
                            {"?", ".", ",", "!"})

urgent_keywords(entry) ==
    CASE entry = "MultiAgentRunner" -> {<<"e", "m", "e", "r", "g", "e", "n", "c", "y">>, <<"h", "e", "l", "p">>, <<"u", "r", "g", "e", "n", "t">>}
      [] entry = "InfoShieldRunner" -> {<<"e", "m", "e", "r", "g", "e", "n", "c", "y">>, <<"u", "r", "g", "e", "n", "t">>, <<"h", "e", "l", "p">>, <<"t", "r", "a", "p", "p", "e", "d">>, <<"s", "o", "s">>}
      [] entry = "run_query_async" ->
            {<<"e", "m", "e", "r", "g", "e", "n", "c", "y">>, <<"u", "r", "g", "e", "n", "t">>, <<"h", "e", "l", "p">>, <<"t", "r", "a", "p", "p", "e", "d">>, <<"s", "o", "s">>, <<"i", "m", "m", "e", "d", "i", "a", "t", "e", "l", "y">>}

\* the urgency with 4 for a query without an urgent keyword
urgency_score_default_4(entry, query) ==
    IF ContainsAny(Lower(query), urgent_keywords(entry)) THEN 8 ELSE 4

\* the urgency the entry point passes to save_for_human_review
urgency_score(entry, query) ==
    IF ContainsAny(Lower(query), urgent_keywords(entry)) THEN 8 ELSE 5

\* where the placeholder sentence of the synthesizer can end when it starts at p
PlaceholderEnds(s, p) ==
    LET a == Lit(s, {p}, <<"T", "h", "i", "s", " ", "q", "u", "e", "r", "y", " ", "h", "a", "s", " ", "b", "e", "e", "n", " ", "f", "l", "a", "g", "g", "e", "d", " ", "f", "o", "r", " ", "h", "u", "m", "a", "n", " ", "e", "x", "p", "e", "r", "t", " ", "r", "e", "v", "i", "e", "w">>)
        b == Lit(s, Run0(s, a \cup Lit(s, a, <<".">>), WS), <<"R", "e", "f", "e", "r", "e", "n", "c", "e", " ", "I", "D", " ", "w", "i", "l", "l", " ", "b", "e", " ", "p", "r", "o", "v", "i", "d", "e", "d">>)
    IN  b \cup Lit(s, b, <<".">>)

\* re.sub(placeholder, '', s) from position from on
RECURSIVE RemovePlaceholder(_, _)
RemovePlaceholder(s, from) ==
    LET at == {p \in from..Len(s) : PlaceholderEnds(s, p) # {}}
    IN  IF at = {} THEN SubSeq(s, from, Len(s))
        ELSE LET p == CHOOSE x \in at : \A y \in at : x <= y
                 e == CHOOSE x \in PlaceholderEnds(s, p) : \A y \in PlaceholderEnds(s, p) : y <= x
             IN  SubSeq(s, from, p - 1) \o RemovePlaceholder(s, e)

\* the notice the entry point appends after a save
human_review_notice(entry, review_result, credibility_score) ==
    CASE entry = "MultiAgentRunner" ->
            <<"\n", "\n", "-", "-", "-", "\n", "*", "*", "U+00F0", "U+0178", "U+201D", " ", "H", "u", "m", "a", "n", " ", "R", "e", "v", "i", "e", "w", " ", "T", "r", "i", "g", "g", "e", "r", "e", "d", "*", "*", "\n", "-", " ", "*", "*", "R", "e", "f", "e", "r", "e", "n", "c", "e", " ", "I", "D", ":", "*", "*", " ">>
            \o review_result.session_id \o <<"\n", "-", " ", "*", "*", "E", "s", "t", "i", "m", "a", "t", "e", "d", " ", "R", "e", "v", "i", "e", "w", " ", "T", "i", "m", "e", ":", "*", "*", " ">>
            \o review_result.estimated_review_time
            \o <<"\n", "-", " ", "*", "*", "R", "e", "a", "s", "o", "n", ":", "*", "*", " ", "C", "r", "e", "d", "i", "b", "i", "l", "i", "t", "y", " ", "s", "c", "o", "r", "e", " ", "(">> \o IntToStr(credibility_score)
            \o <<"/", "1", "0", "0", ")", " ", "b", "e", "l", "o", "w", " ", "t", "h", "r", "e", "s", "h", "o", "l", "d", " ", "(">> \o IntToStr(CREDIBILITY_THRESHOLD) \o <<")", "\n">>
      [] entry = "InfoShieldRunner" ->
            <<"\n", "\n", "-", "-", "-", "\n", "*", "*", "U+1F50D", " ", "H", "u", "m", "a", "n", " ", "R", "e", "v", "i", "e", "w", " ", "T", "r", "i", "g", "g", "e", "r", "e", "d", "*", "*", "\n", "-", " ", "*", "*", "R", "e", "f", "e", "r", "e", "n", "c", "e", " ", "I", "D", ":", "*", "*", " ">>
            \o review_result.session_id \o <<"\n", "-", " ", "*", "*", "E", "s", "t", "i", "m", "a", "t", "e", "d", " ", "R", "e", "v", "i", "e", "w", " ", "T", "i", "m", "e", ":", "*", "*", " ">>
            \o review_result.estimated_review_time
            \o <<"\n", "-", " ", "*", "*", "R", "e", "a", "s", "o", "n", ":", "*", "*", " ", "C", "r", "e", "d", "i", "b", "i", "l", "i", "t", "y", " ", "s", "c", "o", "r", "e", " ", "(">> \o IntToStr(credibility_score)
            \o <<"/", "1", "0", "0", ")", " ", "b", "e", "l", "o", "w", " ", "t", "h", "r", "e", "s", "h", "o", "l", "d", " ", "(">> \o IntToStr(CREDIBILITY_THRESHOLD) \o <<")", "\n">>
      [] entry = "run_query_async" ->
            <<"\n", "\n", "-", "-", "-", "\n", "*", "*", "U+1F50D", " ", "H", "u", "m", "a", "n", " ", "R", "e", "v", "i", "e", "w", " ", "T", "r", "i", "g", "g", "e", "r", "e", "d", "*", "*", "\n", "Y", "o", "u", "r", " ", "q", "u", "e", "r", "y", " ", "h", "a", "s", " ", "b", "e", "e", "n", " ", "f", "l", "a", "g", "g", "e", "d", " ", "f", "o", "r", " ", "e", "x", "p", "e", "r", "t", " ", "v", "e", "r", "i", "f", "i", "c", "a", "t", "i", "o", "n", " ", "d", "u", "e", " ", "t", "o", " ", "l", "o", "w", " ", "c", "r", "e", "d", "i", "b", "i", "l", "i", "t", "y", " ", "s", "c", "o", "r", "e", " ", "(">>
            \o IntToStr(credibility_score) \o <<"/", "1", "0", "0", ")", ".", "\n", "-", " ", "*", "*", "R", "e", "f", "e", "r", "e", "n", "c", "e", " ", "I", "D", ":", "*", "*", " ">>
            \o review_result.session_id \o <<"\n", "-", " ", "*", "*", "E", "s", "t", "i", "m", "a", "t", "e", "d", " ", "R", "e", "v", "i", "e", "w", " ", "T", "i", "m", "e", ":", "*", "*", " ">>
            \o review_result.estimated_review_time
            \o <<"\n", "\n", "O", "u", "r", " ", "h", "u", "m", "a", "n", " ", "e", "x", "p", "e", "r", "t", "s", " ", "w", "i", "l", "l", " ", "v", "e", "r", "i", "f", "y", " ", "t", "h", "i", "s", " ", "i", "n", "f", "o", "r", "m", "a", "t", "i", "o", "n", ".", " ", "Y", "o", "u", " ", "c", "a", "n", " ", "c", "h", "e", "c", "k", " ", "t", "h", "e", " ", "s", "t", "a", "t", "u", "s", " ", "u", "s", "i", "n", "g", " ", "y", "o", "u", "r", " ", "r", "e", "f", "e", "r", "e", "n", "c", "e", " ", "I", "D", ".", "\n">>

(***************************************************************************)
(* SpecPipe: queries sent one after another to one entry point.  A step is *)
(* the code between two awaits: the start of a call up to the first event, *)
(* the handling of one event of runner.run_async, and the end of the       *)
(* stream or an exception raised by it, each with the rest of the call     *)
(* when the call returns there.                                            *)
(***************************************************************************)
max_events_same(entry) == 100

max_events(entry) == IF entry = "MultiAgentRunner" THEN 100 ELSE 50

_max_consecutive_errors == 3

\* human_review is None
NoReview == [session_id |-> None, review_time |-> None]

Queries ==
    { <<"f", "l", "o", "o", "d", " ", "i", "n", " ", "p", "u", "n", "e", "?">>, <<"t", "e", "l", "l", " ", "m", "e", " ", "a", " ", "j", "o", "k", "e">> }

\* final response texts of the synthesizer
Reports ==
    { <<"C", "r", "e", "d", "i", "b", "i", "l", "i", "t", "y", " ", "S", "c", "o", "r", "e", " ", "|", " ", "4", "5", "/", "1", "0", "0", "\n", "T", "h", "i", "s", " ", "q", "u", "e", "r", "y", " ", "h", "a", "s", " ", "b", "e", "e", "n", " ", "f", "l", "a", "g", "g", "e", "d", " ", "f", "o", "r", " ", "h", "u", "m", "a", "n", " ", "e", "x", "p", "e", "r", "t", " ", "r", "e", "v", "i", "e", "w", ".", " ", "R", "e", "f", "e", "r", "e", "n", "c", "e", " ", "I", "D", " ", "w", "i", "l", "l", " ", "b", "e", " ", "p", "r", "o", "v", "i", "d", "e", "d", ".">>,
      <<"C", "r", "e", "d", "i", "b", "i", "l", "i", "t", "y", " ", "S", "c", "o", "r", "e", " ", "|", " ", "7", "5", "/", "1", "0", "0">>,
      <<"S", "t", "a", "y", " ", "s", "a", "f", "e", ".">> }

\* the events of runner.run_async: author, error_message set or not, is_final_response()
\* and the text of its first part (None without content)
Events ==
    { [author |-> "analyzer_agent", error_message |-> FALSE, final |-> FALSE, text |-> None],
      [author |-> "analyzer_agent", error_message |-> TRUE, final |-> FALSE, text |-> None] }
    \cup { [author |-> "synthesizer_agent", error_message |-> FALSE, final |-> TRUE, text |-> t] :
             t \in Reports }

\* the exceptions the stream raises: the class and str(e)
Exceptions ==
    { [type |-> "asyncio.TimeoutError", text |-> <<"g", "e", "n", "e", "r", "a", "t", "e", "_", "c", "o", "n", "t", "e", "n", "t", " ", "t", "i", "m", "e", "d", " ", "o", "u", "t">>],
      [type |-> "Exception", text |-> <<"4", "2", "9", " ", "R", "a", "t", "e", " ", "l", "i", "m", "i", "t", " ", "e", "x", "c", "e", "e", "d", "e", "d">>],
      [type |-> "Exception", text |-> <<"R", "e", "q", "u", "e", "s", "t", " ", "t", "i", "m", "e", "o", "u", "t">>],
      [type |-> "Exception", text |-> <<"Q", "u", "o", "t", "a", " ", "e", "x", "h", "a", "u", "s", "t", "e", "d">>],
      [type |-> "Exception", text |-> <<"c", "o", "n", "n", "e", "c", "t", "i", "o", "n", " ", "r", "e", "s", "e", "t">>] }

exception_message_by_text(entry, exc) ==
    LET error_str == Lower(exc.text)
    IN  IF Contains(error_str, <<"r", "a", "t", "e">>) \/ Contains(error_str, <<"q", "u", "o", "t", "a">>)
        THEN ERROR_MESSAGES.rate_limit
        ELSE IF exc.type = "asyncio.TimeoutError" \/ Contains(error_str, <<"t", "i", "m", "e", "o", "u", "t">>)
        THEN ERROR_MESSAGES.timeout
        ELSE ERROR_MESSAGES.api_error

\* the except clauses of the entry points: the message returned for exc
exception_message(entry, exc) ==
    LET error_str == Lower(exc.text)
    IN  IF exc.type = "asyncio.TimeoutError" THEN ERROR_MESSAGES.timeout
        ELSE IF Contains(error_str, <<"r", "a", "t", "e">>) \/ Contains(error_str, <<"q", "u", "o", "t", "a">>)
        THEN ERROR_MESSAGES.rate_limit
        ELSE IF \/ Contains(error_str, <<"t", "i", "m", "e", "o", "u", "t">>)
                \/ entry = "run_query_async" /\ Contains(error_str, <<"t", "i", "m", "e", "d", " ", "o", "u", "t">>)
        THEN ERROR_MESSAGES.timeout
        ELSE ERROR_MESSAGES.api_error

\* the result with credibility_score 0 where the code returns None
Result_zero_score(entry, response, credibility_score, agents_used, human_review, metadata) ==
    IF entry = "MultiAgentRunner"
    THEN [response |-> response,
          credibility_score |-> IF credibility_score = NoScore THEN 0 ELSE credibility_score,
          agents_used |-> agents_used, human_review |-> human_review,
          metadata |-> metadata]
    ELSE [response |-> response]

\* the dict MultiAgentRunner returns; agent.py returns the response text alone
Result(entry, response, credibility_score, agents_used, human_review, metadata) ==
    IF entry = "MultiAgentRunner"
    THEN [response |-> response, credibility_score |-> credibility_score,
          agents_used |-> agents_used, human_review |-> human_review,
          metadata |-> metadata]
    ELSE [response |-> response]

\* self._error_count after n is assigned; run_query_async has no counter
Counted(n) == IF entry_point = "run_query_async" THEN _error_count ELSE n

PipeInit ==
    /\ csv_exists = FALSE
    /\ csv_lines = <<>>
    /\ writable \in BOOLEAN
    /\ call = [op |-> "none"]
    /\ ret = [status |-> "none"]
    /\ saved = <<>>
    /\ touched = {}
    /\ task = <<>>
    /\ entry_point \in EntryPoints
    /\ enable_human_review \in BOOLEAN
    /\ _error_count = 0
    /\ _query_count = 0
    /\ run = NoRun
    /\ result = NoResult

\* the ways a call returns that make its query a failed one
FailedExits == {"error_event", "no_response", "except"}

\* the call up to its first await: the counters, and for MultiAgentRunner the guardrail
Start(query) ==
    /\ run.pc \in {"idle", "done"}
    /\ _query_count' = _query_count + 1
    /\ call' = [op |-> "none"]
    /\ ret' = [status |-> "none"]
    /\ \E validation \in {validate_query(query)} :
         LET fresh == [NoRun EXCEPT !.query = query, !.exists0 = csv_exists,
                                    !.lines0 = csv_lines, !.errors0 = _error_count,
                                    !.failed0 =
                                        IF entry_point = "run_query_async" THEN 0
                                        ELSE IF run.exit \in FailedExits THEN run.failed0 + 1
                                        ELSE 0]
         IN  IF entry_point = "MultiAgentRunner" /\ ~validation.is_valid
             THEN /\ run' = [fresh EXCEPT !.pc = "done", !.exit = "guardrail"]
                  /\ result' = Result(entry_point, get_rejection_response(validation), NoScore,
                                      <<"guardrail">>, NoReview,
                                      [blocked |-> TRUE, block_reason |-> validation.category])
             ELSE /\ run' = [fresh EXCEPT !.pc = "stream"]
                  /\ result' = NoResult
    /\ UNCHANGED <<csv_exists, csv_lines, writable, saved, touched, task, entry_point,
                   enable_human_review, _error_count>>

\* at most MaxQueries calls of the entry point, one after the other
PStart(query) == _query_count < MaxQueries /\ Start(query)

\* the code after the event loop, up to the return
Finish(event_count) ==
    LET final_response == run.final_response
        done(exit) == [run EXCEPT !.pc = "done", !.exit = exit, !.event_count = event_count]
        multi == entry_point = "MultiAgentRunner"
    IN  IF \/ final_response = <<>>
           \/ ~multi /\ StripChars(final_response, WS) = <<>>
        THEN /\ _error_count' = Counted(_error_count + 1)
             /\ result' = Result(entry_point, ERROR_MESSAGES.no_response, NoScore,
                                 run.agents_used, NoReview,
                                 [error |-> TRUE, event_count |-> event_count])
             /\ run' = done("no_response")
             /\ UNCHANGED <<csv_exists, csv_lines, call, ret, saved>>
        ELSE \E credibility_score \in
                    {IF multi \/ enable_human_review
                     THEN _extract_credibility_score(entry_point, final_response)
                     ELSE NoScore} :
             /\ _error_count' = Counted(0)
             /\ run' = done("report")
             /\ IF /\ enable_human_review
                   /\ credibility_score # NoScore
                   /\ credibility_score < CREDIBILITY_THRESHOLD
                THEN \E sid \in SessionIds :
                     \E review_result \in
                            {save_for_human_review(TheFile, writable, run.query,
                                 _extract_location(entry_point, run.query),
                                 urgency_score(entry_point, run.query),
                                 credibility_score, sid, NowAt(Len(saved)))} :
                        /\ csv_exists' = review_result.file.exists
                        /\ csv_lines' = review_result.file.lines
                        /\ call' = [op |-> "save", session_id |-> sid]
                        /\ ret' = review_result.ret
                        /\ saved' = IF review_result.ret.status = "saved"
                                    THEN Append(saved, HumanReviewEntry(sid, run.query,
                                            _extract_location(entry_point, run.query),
                                            urgency_score(entry_point, run.query),
                                            credibility_score, NowAt(Len(saved))))
                                    ELSE saved
                        /\ result' =
                             IF review_result.ret.status = "saved"
                             THEN Result(entry_point,
                                    (IF multi THEN RemovePlaceholder(final_response, 1)
                                     ELSE final_response)
                                    \o human_review_notice(entry_point, review_result.ret,
                                                           credibility_score),
                                    credibility_score, run.agents_used,
                                    [session_id |-> review_result.ret.session_id,
                                     review_time |-> review_result.ret.estimated_review_time],
                                    [event_count |-> event_count,
                                     query_number |-> _query_count])
                             ELSE Result(entry_point, final_response, credibility_score,
                                    run.agents_used, NoReview,
                                    [event_count |-> event_count,
                                     query_number |-> _query_count])
                ELSE /\ result' = Result(entry_point, final_response, credibility_score,
                                         run.agents_used, NoReview,
                                         [event_count |-> event_count,
                                          query_number |-> _query_count])
                     /\ UNCHANGED <<csv_exists, csv_lines, call, ret, saved>>

\* one iteration of  async for event in runner.run_async(...)
Event(e) ==
    /\ run.pc = "stream"
    /\ IF run.event_count + 1 > max_events(entry_point)
       THEN Finish(run.event_count + 1)
       ELSE LET multi == entry_point = "MultiAgentRunner"
                next == [run EXCEPT
                           !.event_count = @ + 1,
                           !.final_response = IF e.final /\ e.text # None THEN e.text ELSE @,
                           !.agents_used =
                               IF multi /\ \A i \in 1..Len(@) : @[i] # e.author
                               THEN Append(@, e.author) ELSE @]
            IN  /\ IF e.error_message /\ ~multi
                   THEN /\ _error_count' = Counted(_error_count + 1)
                        /\ run' = [next EXCEPT !.pc = "done", !.exit = "error_event"]
                        /\ result' = Result(entry_point,
                              IF /\ entry_point = "InfoShieldRunner"
                                 /\ _error_count + 1 >= _max_consecutive_errors
                              THEN ERROR_MESSAGES.api_error
                                   \o <<"\n", "\n", "(", "M", "u", "l", "t", "i", "p", "l", "e", " ", "c", "o", "n", "s", "e", "c", "u", "t", "i", "v", "e", " ", "e", "r", "r", "o", "r", "s", " ", "d", "e", "t", "e", "c", "t", "e", "d", ".", " ", "T", "h", "e", " ", "s", "e", "r", "v", "i", "c", "e", " ", "m", "a", "y", " ", "b", "e", " ", "t", "e", "m", "p", "o", "r", "a", "r", "i", "l", "y", " ", "u", "n", "a", "v", "a", "i", "l", "a", "b", "l", "e", ".", ")">>
                              ELSE ERROR_MESSAGES.api_error,
                              NoScore, <<>>, NoReview, <<>>)
                   ELSE /\ _error_count' = IF e.error_message THEN _error_count + 1
                                           ELSE _error_count
                        /\ run' = next
                        /\ UNCHANGED result
                /\ UNCHANGED <<csv_exists, csv_lines, call, ret, saved>>
    /\ UNCHANGED <<writable, touched, task, entry_point, enable_human_review, _query_count>>

\* the stream yields at most MaxEvents events
PEvent(e) == run.event_count < MaxEvents /\ Event(e)

\* runner.run_async is exhausted
PEnd ==
    /\ run.pc = "stream"
    /\ Finish(run.event_count)
    /\ UNCHANGED <<writable, touched, task, entry_point, enable_human_review, _query_count>>

\* the initialization or the stream raises exc: the except clauses
PRaise(exc) ==
    /\ run.pc = "stream"
    /\ _error_count' = Counted(_error_count + 1)
    /\ run' = [run EXCEPT !.pc = "done", !.exit = "except", !.raised = exc, !.event_count = 0,
                           !.final_response = <<>>, !.agents_used = <<>>]
    /\ result' = Result(entry_point, exception_message(entry_point, exc), NoScore,
                        run.agents_used, NoReview,
                        [error |-> TRUE,
                         error_type |-> IF exc.type = "asyncio.TimeoutError" THEN "timeout"
                                        ELSE exc.type])
    /\ UNCHANGED <<csv_exists, csv_lines, writable, call, ret, saved, touched, task,
                   entry_point, enable_human_review, _query_count>>

PipeNext ==
    \/ \E query \in Queries : PStart(query)
    \/ \E e \in Events : PEvent(e)
    \/ PEnd
    \/ \E exc \in Exceptions : PRaise(exc)

SpecPipe == PipeInit /\ [][PipeNext]_vars

(***************************************************************************)
(* Properties of the entry points under SpecPipe.                          *)
(***************************************************************************)
\* C1: a query the guardrail rejects never reaches the collaborators: its
\* call returns without an event consumed or an exception from the stream,
\* and with the review store as it was when the call started.
C1_RejectedProducesNothing ==
    (run.pc # "idle" /\ ~validate_query(run.query).is_valid)
    => /\ run.pc = "done"
       /\ run.exit = "guardrail"
       /\ run.event_count = 0
       /\ csv_exists = run.exists0
       /\ csv_lines = run.lines0

\* C2: a call reaches the code after the event loop with a final response.
\* With human review enabled, the store writable and a score below 60
\* extracted, exactly one record is appended after the records the store held
\* (after the header, when the store was absent): it reads back as one entry
\* that carries the query and the score with status 'pending', and the review
\* time returned is 'within 1 hour' when the urgency estimate is 5.  In every
\* other case the store is left as it was.
C2_Escalation ==
    [][(run.pc = "stream" /\ run'.pc = "done" /\ run'.exit = "report")
       => \A score \in {IF enable_human_review /\ writable
                          THEN _extract_credibility_score(entry_point, run'.final_response)
                          ELSE NoScore} :
            IF enable_human_review /\ writable /\ score # NoScore /\ score < 60
            THEN /\ csv_exists'
                 /\ Len(csv_lines') = (IF csv_exists THEN Len(csv_lines) ELSE 1) + 1
                 /\ csv_exists => SubSeq(csv_lines', 1, Len(csv_lines)) = csv_lines
                 /\ \A new \in {DictReader(<<csv_lines'[1], csv_lines'[Len(csv_lines')]>>)} :
                      /\ Len(new) = 1
                      /\ Get(new[1], S_status, None) = S_pending
                      /\ Get(new[1], S_query, None) = run.query
                      /\ Get(new[1], S_credibility_score, None) = IntToStr(score)
                 /\ urgency_score(entry_point, run.query) = 5
                    => ret'.estimated_review_time = <<"w", "i", "t", "h", "i", "n", " ", "1", " ", "h", "o", "u", "r">>
            ELSE /\ csv_exists' = csv_exists
                 /\ csv_lines' = csv_lines]_vars

\* MultiAgentRunner has escalated a query of urgency 5 and the entry is stored
C2_Witness ==
    /\ entry_point = "MultiAgentRunner"
    /\ run.pc = "done"
    /\ run.exit = "report"
    /\ call.op = "save"
    /\ ret.status = "saved"
    /\ ret.estimated_review_time = <<"w", "i", "t", "h", "i", "n", " ", "1", " ", "h", "o", "u", "r">>
    /\ Len(Entries) >= 1

\* C9: when the store cannot be written during the escalation, save answers
\* with status 'error' and an empty session_id, the store is left as it was,
\* and the call returns the final response as the synthesizer gave it, with
\* human_review None, no error metadata and the error count reset.
C9_SaveFailure ==
    (run.pc = "done" /\ run.exit = "report" /\ call.op = "save" /\ ~writable)
    => /\ ret.status = "error"
       /\ ret.session_id = <<>>
       /\ csv_exists = run.exists0
       /\ csv_lines = run.lines0
       /\ result.response = run.final_response
       /\ entry_point # "run_query_async" => _error_count = 0
       /\ entry_point = "MultiAgentRunner"
          => /\ result.human_review = NoReview
             /\ result.credibility_score
                  = _extract_credibility_score(entry_point, run.final_response)
             /\ "error" \notin DOMAIN result.metadata

\* MultiAgentRunner has tried to save a low-credibility query to a store that
\* cannot be written
C9_Witness ==
    /\ entry_point = "MultiAgentRunner"
    /\ run.pc = "done"
    /\ run.exit = "report"
    /\ call.op = "save"
    /\ ~writable
    /\ result.credibility_score = 45

\* the message the claim C10 gives for an exception: rate_limit when its text
\* contains 'rate' or 'quota', else timeout when it is a timeout, else api_error
C10_MessageByText(exc) ==
    IF Contains(Lower(exc.text), <<"r", "a", "t", "e">>) \/ Contains(Lower(exc.text), <<"q", "u", "o", "t", "a">>)
    THEN ERROR_MESSAGES.rate_limit
    ELSE IF exc.type = "asyncio.TimeoutError" \/ Contains(Lower(exc.text), <<"t", "i", "m", "e", "o", "u", "t">>)
    THEN ERROR_MESSAGES.timeout
    ELSE ERROR_MESSAGES.api_error

MaxCalls == 3

HealthInit ==
    /\ StoreInit
    /\ task = <<>>
    /\ entry_point \in {"MultiAgentRunner", "InfoShieldRunner"}
    /\ enable_human_review = FALSE
    /\ _error_count = 0
    /\ _query_count = 0
    /\ run = NoRun
    /\ result = NoResult

HStart(query) == _query_count < MaxCalls /\ Start(query)

HealthNext ==
    \/ \E query \in Queries : HStart(query)
    \/ \E e \in Events : PEvent(e)
    \/ PEnd
    \/ \E exc \in Exceptions : PRaise(exc)

SpecHealth == HealthInit /\ [][HealthNext]_vars

\* C11: when a call of a long-lived runner fails and the two calls before it
\* failed too (so it is the third or a later failure in a row), the error
\* response it returns carries the degraded-health annotation.
C11_DegradedAnnotation ==
    (run.pc = "done" /\ run.exit \in FailedExits /\ run.failed0 >= 2)
    => Contains(result.response, <<"M", "u", "l", "t", "i", "p", "l", "e", " ", "c", "o", "n", "s", "e", "c", "u", "t", "i", "v", "e", " ", "e", "r", "r", "o", "r", "s", " ", "d", "e", "t", "e", "c", "t", "e", "d">>)

(***************************************************************************)
(* One query whose stream may yield more events than the loop accepts.     *)
(***************************************************************************)
CapInit ==
    /\ StoreInit
    /\ task = <<>>
    /\ entry_point \in EntryPoints
    /\ enable_human_review \in BOOLEAN
    /\ _error_count = 0
    /\ _query_count = 0
    /\ run = NoRun
    /\ result = NoResult

\* a single call
CapStart(query) == _query_count = 0 /\ Start(query)

\* the stream yields events without end, at most MaxEvents of them with error_message set
CapEvent(e) == (e.error_message => _error_count < MaxEvents) /\ Event(e)

CapNext ==
    \/ \E query \in Queries : CapStart(query)
    \/ \E e \in Events : CapEvent(e)
    \/ PEnd
    \/ \E exc \in Exceptions : PRaise(exc)

SpecCap == CapInit /\ [][CapNext]_vars

\* C12: the loop of one query ends: every step of a call that is in its loop
\* returns or counts one more event, and in the loop the call has counted at
\* most 100 events (50 in agent.py).  Once it has counted that many, the next
\* step returns, whatever the stream does: unless the stream raises, the text
\* captured so far is kept and returned (followed by the review notice when
\* the query is escalated), or the no_response message when no text was
\* captured.
C12_EventLoopTerminates ==
    /\ [](run.event_count <= (IF entry_point = "MultiAgentRunner" THEN 100 ELSE 50) + 1)
    /\ [](run.pc = "stream"
          => run.event_count <= (IF entry_point = "MultiAgentRunner" THEN 100 ELSE 50))
    /\ [][(/\ run.pc = "stream"
           /\ run.event_count = (IF entry_point = "MultiAgentRunner" THEN 100 ELSE 50)
           /\ run'.exit # "except")
          => /\ run'.pc = "done"
             /\ run'.final_response = run.final_response
             /\ result'.response =
                  IF run.final_response = <<>> THEN ERROR_MESSAGES.no_response
                  ELSE IF call'.op = "save" /\ ret'.status = "saved"
                  THEN (IF entry_point = "MultiAgentRunner"
                        THEN RemovePlaceholder(run.final_response, 1)
                        ELSE run.final_response)
                       \o human_review_notice(entry_point, ret',
                            _extract_credibility_score(entry_point, run.final_response))
                  ELSE run.final_response]_vars
    /\ [][run.pc = "stream"
          => run'.pc = "done" \/ run'.event_count = run.event_count + 1]_vars

\* the loop was left at the first event past the cap with a text captured before it
C12_Witness ==
    /\ run.pc = "done"
    /\ run.exit = "report"
    /\ run.event_count = max_events(entry_point) + 1
    /\ result.response = run.final_response

(***************************************************************************)
(* agents/orchestrator.py: the sub-agents of the sequential orchestrator.  *)
(* reads are the state keys the agent's instruction names in braces,       *)
(* output_key the key its final response is saved under.  The orchestrator *)
(* runs its sub_agents in list order, each to its final response, as       *)
(* create_orchestrator_agent documents.                                    *)
(***************************************************************************)
sub_agents_credibility_first ==
    << [name |-> "analyzer_agent", reads |-> {}, output_key |-> "analysis_result"],
       [name |-> "credibility_agent", reads |-> {"search_result"},
        output_key |-> "credibility_result"],
       [name |-> "search_agent", reads |-> {"analysis_result"}, output_key |-> "search_result"],
       [name |-> "synthesizer_agent",
        reads |-> {"analysis_result", "search_result", "credibility_result"},
        output_key |-> "None"] >>

sub_agents ==
    << [name |-> "analyzer_agent", reads |-> {}, output_key |-> "analysis_result"],
       [name |-> "search_agent", reads |-> {"analysis_result"}, output_key |-> "search_result"],
       [name |-> "credibility_agent", reads |-> {"search_result"},
        output_key |-> "credibility_result"],
       [name |-> "synthesizer_agent",
        reads |-> {"analysis_result", "search_result", "credibility_result"},
        output_key |-> "None"] >>

\* final responses of a sub-agent
Outputs == {"out1", "out2", "out3", "out4"}

\* one query: no sub-agent has run, the session state is empty
StagesInit ==
    /\ StoreInit
    /\ PipeIdle
    /\ task = [pc |-> "idle", agent |-> 0, state |-> Dict(<<>>, <<>>),
               ran |-> <<>>, absent |-> {}, written |-> <<>>]

\* the next sub-agent starts: its instruction is filled in from the state
StageInvoke ==
    /\ task.pc \in {"idle", "responded"}
    /\ task.agent < Len(sub_agents)
    /\ task' = [task EXCEPT
                  !.pc = "running",
                  !.agent = @ + 1,
                  !.ran = Append(@, sub_agents[task.agent + 1].name),
                  !.absent = {k \in sub_agents[task.agent + 1].reads :
                                 KeyIndex(task.state, k) = 0}]
    /\ UNCHANGED <<csv_exists, csv_lines, writable, call, ret, saved, touched, pipeVars>>

\* the running sub-agent gives its final response: it is saved under output_key
StageRespond(out) ==
    /\ task.pc = "running"
    /\ task' = [task EXCEPT
                  !.pc = "responded",
                  !.state = IF sub_agents[task.agent].output_key = "None" THEN @
                            ELSE Set(@, sub_agents[task.agent].output_key, out),
                  !.written = Append(@, sub_agents[task.agent].output_key)]
    /\ UNCHANGED <<csv_exists, csv_lines, writable, call, ret, saved, touched, pipeVars>>

StagesNext == StageInvoke \/ \E out \in Outputs : StageRespond(out)

SpecStages == StagesInit /\ [][StagesNext]_vars

\* C13: for one query the sub-agents that have started are, in this order and
\* each once, the analyzer, the search, the credibility and the synthesizer
\* agent; a sub-agent starts only when every sub-agent before it has given
\* its response, and no state key it reads is absent when it starts: search
\* finds analysis_result, credibility finds search_result, the synthesizer
\* finds all three.
C13_StagesInOrder ==
    /\ task.ran = SubSeq(<<"analyzer_agent", "search_agent", "credibility_agent",
                           "synthesizer_agent">>, 1, Len(task.ran))
    /\ task.pc = "running" => Len(task.written) = Len(task.ran) - 1
    /\ task.absent = {}
    /\ task.pc = "running" /\ task.ran[Len(task.ran)] = "search_agent"
       => KeyIndex(task.state, "analysis_result") # 0
    /\ task.pc = "running" /\ task.ran[Len(task.ran)] = "credibility_agent"
       => KeyIndex(task.state, "search_result") # 0
    /\ task.pc = "running" /\ task.ran[Len(task.ran)] = "synthesizer_agent"
       => /\ KeyIndex(task.state, "analysis_result") # 0
          /\ KeyIndex(task.state, "search_result") # 0
          /\ KeyIndex(task.state, "credibility_result") # 0

\* the synthesizer has started with the three results in the state
C13_Witness ==
    /\ task.pc = "running"
    /\ task.ran = <<"analyzer_agent", "search_agent", "credibility_agent", "synthesizer_agent">>
    /\ task.state.keys = <<"analysis_result", "search_result", "credibility_result">>

(***************************************************************************)
(* tools/credibility.py and the lists of config.py.                        *)
(***************************************************************************)
OFFICIAL_SOURCES ==
    << <<"u", "n", " ", "o", "c", "h", "a">>,
       <<"r", "e", "d", " ", "c", "r", "o", "s", "s">>,
       <<"r", "e", "d", " ", "c", "r", "e", "s", "c", "e", "n", "t">>,
       <<"w", "o", "r", "l", "d", " ", "m", "e", "t", "e", "o", "r", "o", "l", "o", "g", "i", "c", "a", "l", " ", "o", "r", "g", "a", "n", "i", "z", "a", "t", "i", "o", "n">>,
       <<"i", "n", "t", "e", "r", "n", "a", "t", "i", "o", "n", "a", "l", " ", "f", "e", "d", "e", "r", "a", "t", "i", "o", "n">>,
       <<"u", "n", "i", "c", "e", "f">>,
       <<"w", "h", "o">>,
       <<"r", "e", "u", "t", "e", "r", "s">>,
       <<"a", "p", " ", "n", "e", "w", "s">>,
       <<"a", "f", "p">>,
       <<"b", "b", "c">>,
       <<"c", "n", "n">>,
       <<"a", "l", " ", "j", "a", "z", "e", "e", "r", "a">>,
       <<"a", "c", "c", "u", "w", "e", "a", "t", "h", "e", "r">>,
       <<"w", "e", "a", "t", "h", "e", "r", ".", "c", "o", "m">>,
       <<"w", "e", "a", "t", "h", "e", "r", " ", "u", "n", "d", "e", "r", "g", "r", "o", "u", "n", "d">>,
       <<"n", "d", "r", "f">>,
       <<"n", "d", "m", "a">>,
       <<"i", "m", "d">>,
       <<"i", "n", "d", "i", "a", "n", " ", "m", "e", "t", "e", "o", "r", "o", "l", "o", "g", "i", "c", "a", "l", " ", "d", "e", "p", "a", "r", "t", "m", "e", "n", "t">>,
       <<"i", "n", "d", "i", "a", " ", "m", "e", "t">>,
       <<"s", "d", "m", "a">>,
       <<"d", "d", "m", "a">>,
       <<"n", "d", "t", "v">>,
       <<"t", "i", "m", "e", "s", " ", "o", "f", " ", "i", "n", "d", "i", "a">>,
       <<"h", "i", "n", "d", "u", "s", "t", "a", "n", " ", "t", "i", "m", "e", "s">>,
       <<"f", "e", "m", "a">>,
       <<"n", "w", "s">>,
       <<"n", "a", "t", "i", "o", "n", "a", "l", " ", "w", "e", "a", "t", "h", "e", "r", " ", "s", "e", "r", "v", "i", "c", "e">>,
       <<"n", "o", "a", "a">>,
       <<"u", "s", "g", "s">>,
       <<"n", "a", "t", "i", "o", "n", "a", "l", " ", "h", "u", "r", "r", "i", "c", "a", "n", "e", " ", "c", "e", "n", "t", "e", "r">>,
       <<"s", "t", "o", "r", "m", " ", "p", "r", "e", "d", "i", "c", "t", "i", "o", "n", " ", "c", "e", "n", "t", "e", "r">>,
       <<"m", "e", "t", " ", "o", "f", "f", "i", "c", "e">>,
       <<"e", "n", "v", "i", "r", "o", "n", "m", "e", "n", "t", " ", "a", "g", "e", "n", "c", "y">>,
       <<"b", "b", "c", " ", "w", "e", "a", "t", "h", "e", "r">>,
       <<"b", "u", "r", "e", "a", "u", " ", "o", "f", " ", "m", "e", "t", "e", "o", "r", "o", "l", "o", "g", "y">>,
       <<"b", "o", "m">>,
       <<"s", "e", "s">>,
       <<"e", "m", "e", "r", "g", "e", "n", "c", "y", " ", "v", "i", "c", "t", "o", "r", "i", "a">>,
       <<"j", "m", "a">>,
       <<"j", "a", "p", "a", "n", " ", "m", "e", "t", "e", "o", "r", "o", "l", "o", "g", "i", "c", "a", "l", " ", "a", "g", "e", "n", "c", "y">>,
       <<"d", "a", "t", "a", ".", "j", "m", "a", ".", "g", "o", ".", "j", "p">>,
       <<"j", "m", "a", ".", "g", "o", ".", "j", "p">>,
       <<"j", "a", "p", "a", "n", " ", "e", "a", "r", "t", "h", "q", "u", "a", "k", "e">>,
       <<"j", "a", "p", "a", "n", " ", "t", "s", "u", "n", "a", "m", "i", " ", "w", "a", "r", "n", "i", "n", "g">>,
       <<"c", "m", "a">>,
       <<"c", "h", "i", "n", "a", " ", "m", "e", "t", "e", "o", "r", "o", "l", "o", "g", "i", "c", "a", "l", " ", "a", "d", "m", "i", "n", "i", "s", "t", "r", "a", "t", "i", "o", "n">>,
       <<"e", "u", "m", "e", "t", "s", "a", "t">>,
       <<"c", "o", "p", "e", "r", "n", "i", "c", "u", "s">>,
       <<"e", "c", "m", "w", "f">>,
       <<"p", "a", "g", "a", "s", "a">>,
       <<"n", "d", "r", "r", "m", "c">>,
       <<"p", "h", "i", "l", "v", "o", "l", "c", "s">>,
       <<"b", "m", "d">>,
       <<"b", "a", "n", "g", "l", "a", "d", "e", "s", "h", " ", "m", "e", "t", "e", "o", "r", "o", "l", "o", "g", "i", "c", "a", "l", " ", "d", "e", "p", "a", "r", "t", "m", "e", "n", "t">>,
       <<"g", "o", "v", "e", "r", "n", "m", "e", "n", "t">>,
       <<"o", "f", "f", "i", "c", "i", "a", "l">>,
       <<"m", "i", "n", "i", "s", "t", "r", "y">>,
       <<"d", "e", "p", "a", "r", "t", "m", "e", "n", "t">>,
       <<"m", "e", "t", "e", "o", "r", "o", "l", "o", "g", "i", "c", "a", "l">>,
       <<"s", "e", "i", "s", "m", "o", "l", "o", "g", "i", "c", "a", "l">>,
       <<"e", "m", "e", "r", "g", "e", "n", "c", "y", " ", "m", "a", "n", "a", "g", "e", "m", "e", "n", "t">>,
       <<"c", "i", "v", "i", "l", " ", "d", "e", "f", "e", "n", "s", "e">>,
       <<"d", "i", "s", "a", "s", "t", "e", "r", " ", "m", "a", "n", "a", "g", "e", "m", "e", "n", "t", " ", "a", "u", "t", "h", "o", "r", "i", "t", "y">> >>

\* min(a, b) and max(a, b)
min_second(a, b) == b

min(a, b) == IF a <= b THEN a ELSE b

max_second(a, b) == b

max(a, b) == IF a >= b THEN a ELSE b

doubt_keywords_without_hoax ==
    {<<"u", "n", "c", "o", "n", "f", "i", "r", "m", "e", "d">>, <<"r", "u", "m", "o", "r">>, <<"f", "a", "l", "s", "e">>, <<"f", "a", "k", "e">>, <<"n", "o", "t", " ", "t", "r", "u", "e">>, <<"d", "e", "n", "i", "e", "d">>}

doubt_keywords ==
    {<<"u", "n", "c", "o", "n", "f", "i", "r", "m", "e", "d">>, <<"r", "u", "m", "o", "r">>, <<"f", "a", "l", "s", "e">>, <<"f", "a", "k", "e">>, <<"h", "o", "a", "x">>, <<"n", "o", "t", " ", "t", "r", "u", "e">>, <<"d", "e", "n", "i", "e", "d">>}

calculate_credibility(search_summary, sources_mentioned, location, disaster_type) ==
    LET search_lower == Lower(search_summary)
        sources_lower == Lower(sources_mentioned)
        sources_found == SelectSeq(OFFICIAL_SOURCES,
                            LAMBDA source : Contains(search_lower, source)
                                            \/ Contains(sources_lower, source))
        official == SelectSeq(sources_found,
                        LAMBDA source : source \in {<<"n", "d", "r", "f">>, <<"n", "d", "m", "a">>, <<"f", "e", "m", "a">>, <<"g", "o", "v", "e", "r", "n", "m", "e", "n", "t">>,
                                                    <<"m", "i", "n", "i", "s", "t", "r", "y">>, <<"o", "f", "f", "i", "c", "i", "a", "l">>})
        official_count == Len(official)
        news_count == Len(sources_found) - official_count
        official_points == min(40, official_count * 20)
        news_points == min(30, news_count * 10)
        recency == ContainsAny(search_lower, {<<"t", "o", "d", "a", "y">>, <<"n", "o", "w">>, <<"j", "u", "s", "t">>, <<"b", "r", "e", "a", "k", "i", "n", "g">>,
                                              <<"l", "a", "t", "e", "s", "t">>, <<"c", "u", "r", "r", "e", "n", "t">>, <<"o", "n", "g", "o", "i", "n", "g">>})
        located == /\ location # <<>>
                   /\ Lower(location) # <<"u", "n", "k", "n", "o", "w", "n">>
                   /\ Contains(search_lower, Lower(location))
        corroborated == Len(sources_found) >= 3
        typed == disaster_type # <<>> /\ Contains(search_lower, Lower(disaster_type))
        doubted == ContainsAny(search_lower, doubt_keywords)
        score == (IF official_count > 0 THEN official_points ELSE 0)
                 + (IF news_count > 0 THEN news_points ELSE 0)
                 + (IF recency THEN 10 ELSE 0)
                 + (IF located THEN 10 ELSE 0)
                 + (IF corroborated THEN 10 ELSE 0)
                 + (IF typed THEN 5 ELSE 0)
                 - (IF doubted THEN 30 ELSE 0)
        reasons ==
            (IF official_count > 0
             THEN <<<<"F", "o", "u", "n", "d", " ">> \o NatToStr(official_count) \o <<" ", "o", "f", "f", "i", "c", "i", "a", "l", " ", "s", "o", "u", "r", "c", "e", "(", "s", ")", " ", "(", "+">>
                    \o NatToStr(official_points) \o <<")">>>> ELSE <<>>)
            \o (IF news_count > 0
                THEN <<<<"F", "o", "u", "n", "d", " ">> \o NatToStr(news_count) \o <<" ", "n", "e", "w", "s", "/", "r", "e", "l", "i", "a", "b", "l", "e", " ", "s", "o", "u", "r", "c", "e", "(", "s", ")", " ", "(", "+">>
                       \o NatToStr(news_points) \o <<")">>>> ELSE <<>>)
            \o (IF recency THEN <<<<"R", "e", "c", "e", "n", "t", "/", "c", "u", "r", "r", "e", "n", "t", " ", "e", "v", "e", "n", "t", " ", "i", "n", "d", "i", "c", "a", "t", "o", "r", "s", " ", "(", "+", "1", "0", ")">>>> ELSE <<>>)
            \o (IF located
                THEN <<<<"L", "o", "c", "a", "t", "i", "o", "n", " ", "'">> \o location \o <<"'", " ", "c", "o", "n", "f", "i", "r", "m", "e", "d", " ", "i", "n", " ", "s", "o", "u", "r", "c", "e", "s", " ", "(", "+", "1", "0", ")">>>>
                ELSE <<>>)
            \o (IF corroborated THEN <<<<"M", "u", "l", "t", "i", "p", "l", "e", " ", "s", "o", "u", "r", "c", "e", "s", " ", "c", "o", "r", "r", "o", "b", "o", "r", "a", "t", "e", " ", "(", "+", "1", "0", ")">>>> ELSE <<>>)
            \o (IF typed
                THEN <<<<"D", "i", "s", "a", "s", "t", "e", "r", " ", "t", "y", "p", "e", " ", "'">> \o disaster_type \o <<"'", " ", "c", "o", "n", "f", "i", "r", "m", "e", "d", " ", "(", "+", "5", ")">>>>
                ELSE <<>>)
            \o (IF doubted THEN <<<<"F", "o", "u", "n", "d", " ", "d", "o", "u", "b", "t", "/", "d", "e", "n", "i", "a", "l", " ", "i", "n", "d", "i", "c", "a", "t", "o", "r", "s", " ", "(", "-", "3", "0", ")">>>> ELSE <<>>)
    IN  [score |-> max(0, min(100, score)),
         reasoning |-> Join(IF reasons = <<>>
                            THEN <<<<"N", "o", " ", "c", "o", "n", "f", "i", "r", "m", "i", "n", "g", " ", "s", "o", "u", "r", "c", "e", "s", " ", "f", "o", "u", "n", "d", " ", "i", "n", " ", "s", "e", "a", "r", "c", "h", " ", "r", "e", "s", "u", "l", "t", "s">>>>
                            ELSE reasons, <<";", " ">>),
         sources_found |-> sources_found,
         official_sources_count |-> official_count,
         news_sources_count |-> news_count]

(***************************************************************************)
(* tools/analyzer.py.                                                      *)
(***************************************************************************)
\* DISASTER_KEYWORDS of config.py, the vocabulary of analyze_query
CONFIG_DISASTER_KEYWORDS ==
    << <<"f", "l", "o", "o", "d">>,
       <<"f", "l", "o", "o", "d", "i", "n", "g">>,
       <<"e", "a", "r", "t", "h", "q", "u", "a", "k", "e">>,
       <<"t", "s", "u", "n", "a", "m", "i">>,
       <<"c", "y", "c", "l", "o", "n", "e">>,
       <<"h", "u", "r", "r", "i", "c", "a", "n", "e">>,
       <<"t", "o", "r", "n", "a", "d", "o">>,
       <<"w", "i", "l", "d", "f", "i", "r", "e">>,
       <<"f", "i", "r", "e">>,
       <<"l", "a", "n", "d", "s", "l", "i", "d", "e">>,
       <<"a", "v", "a", "l", "a", "n", "c", "h", "e">>,
       <<"d", "r", "o", "u", "g", "h", "t">>,
       <<"v", "o", "l", "c", "a", "n", "o">>,
       <<"e", "r", "u", "p", "t", "i", "o", "n">>,
       <<"s", "t", "o", "r", "m">>,
       <<"t", "y", "p", "h", "o", "o", "n">>,
       <<"b", "l", "i", "z", "z", "a", "r", "d">>,
       <<"h", "e", "a", "t", "w", "a", "v", "e">>,
       <<"r", "e", "s", "c", "u", "e">>,
       <<"e", "m", "e", "r", "g", "e", "n", "c", "y">>,
       <<"e", "v", "a", "c", "u", "a", "t", "i", "o", "n">>,
       <<"t", "r", "a", "p", "p", "e", "d">>,
       <<"h", "e", "l", "p">>,
       <<"s", "o", "s">> >>

\* the panic indicators of analyze_query without 'dying'
panic_indicators_without_dying ==
    { <<"h", "e", "l", "p">>, <<"s", "o", "s">>, <<"e", "m", "e", "r", "g", "e", "n", "c", "y">>, <<"t", "r", "a", "p", "p", "e", "d">>, <<"d", "r", "o", "w", "n", "i", "n", "g">> }

panic_indicators_without_help == {<<"s", "o", "s">>, <<"e", "m", "e", "r", "g", "e", "n", "c", "y">>, <<"t", "r", "a", "p", "p", "e", "d">>, <<"d", "y", "i", "n", "g">>, <<"d", "r", "o", "w", "n", "i", "n", "g">>}

panic_indicators == {<<"h", "e", "l", "p">>, <<"s", "o", "s">>, <<"e", "m", "e", "r", "g", "e", "n", "c", "y">>, <<"t", "r", "a", "p", "p", "e", "d">>, <<"d", "y", "i", "n", "g">>, <<"d", "r", "o", "w", "n", "i", "n", "g">>}

urgent_indicators == {<<"n", "o", "w">>, <<"i", "m", "m", "e", "d", "i", "a", "t", "e", "l", "y">>, <<"u", "r", "g", "e", "n", "t">>, <<"q", "u", "i", "c", "k", "l", "y">>, <<"a", "s", "a", "p">>, <<"!">>}

\* the bands of analyze_query with 'urgent' from 7 on
sentiment_urgent_from_7(urgency, query, keywords_found) ==
    IF urgency >= 8 THEN "panic"
    ELSE IF urgency >= 7 THEN "urgent"
    ELSE IF urgency >= 4 THEN "concerned"
    ELSE IF Contains(query, <<"?">>) /\ Len(keywords_found) = 0 THEN "curious"
    ELSE "neutral"

\* "Determine sentiment" of analyze_query, from the clamped urgency score
sentiment(urgency, query, keywords_found) ==
    IF urgency >= 8 THEN "panic"
    ELSE IF urgency >= 6 THEN "urgent"
    ELSE IF urgency >= 4 THEN "concerned"
    ELSE IF Contains(query, <<"?">>) /\ Len(keywords_found) = 0 THEN "curious"
    ELSE "neutral"

\* analyze_query(query, inferred_location); inferred_location None when it is not given
analyze_query(query, inferred_location) ==
    LET query_lower == Lower(query)
        keywords_found == SelectSeq(CONFIG_DISASTER_KEYWORDS,
                                    LAMBDA kw : Contains(query_lower, kw))
        panic == ContainsAny(query_lower, panic_indicators)
        bangs == Cardinality({i \in 1..Len(query) : query[i] = "!"})
        urgency ==
            min(10, max(1, 3 + (IF panic THEN 4 ELSE 0)
                             + (IF ContainsAny(query_lower, urgent_indicators) THEN 2 ELSE 0)
                             + (IF bangs >= 2 THEN 1 ELSE 0)
                             + Len(keywords_found)))
        \* [A-Z][a-z]+ at b
        capital(b) == /\ b + 1 <= Len(query)
                      /\ \E k \in 1..26 : query[b] = UPPER[k]
                      /\ \E k \in 1..26 : query[b + 1] = LOWER[k]
        \* the position after the lower-case letters that start at i
        lowerEnd(i) == CHOOSE e \in i..(Len(query) + 1) :
                          /\ \A k \in i..(e - 1) : \E c \in 1..26 : query[k] = LOWER[c]
                          /\ (e = Len(query) + 1 \/ \A c \in 1..26 : query[e] # LOWER[c])
        \* the position after the white space that starts at i
        spaceEnd(i) == CHOOSE e \in i..(Len(query) + 1) :
                          /\ \A k \in i..(e - 1) : query[k] \in WS
                          /\ (e = Len(query) + 1 \/ query[e] \notin WS)
        \* where [A-Z][a-z]+(?:\s+[A-Z][a-z]+)* ends when it starts at b
        RECURSIVE wordsEnd(_)
        wordsEnd(b) == LET e == lowerEnd(b + 1)
                       IN  IF spaceEnd(e) > e /\ capital(spaceEnd(e))
                           THEN wordsEnd(spaceEnd(e)) ELSE e
        \* re.search(word\s+(...), query): the group of the leftmost match, None without one
        after(word) ==
            LET at == {p \in 1..Len(query) :
                         /\ OccursAt(query, word, p)
                         /\ spaceEnd(p + Len(word)) > p + Len(word)
                         /\ capital(spaceEnd(p + Len(word)))}
                p == CHOOSE x \in at : \A y \in at : x <= y
                b == spaceEnd(p + Len(word))
            IN  IF at = {} THEN None ELSE SubSeq(query, b, wordsEnd(b) - 1)
        \* re.search((...)\s+(?:area|region|city|town|district), query)
        before ==
            LET at == {b \in 1..Len(query) :
                         /\ capital(b)
                         /\ spaceEnd(wordsEnd(b)) > wordsEnd(b)
                         /\ \E w \in {<<"a", "r", "e", "a">>, <<"r", "e", "g", "i", "o", "n">>, <<"c", "i", "t", "y">>, <<"t", "o", "w", "n">>, <<"d", "i", "s", "t", "r", "i", "c", "t">>} :
                               OccursAt(query, w, spaceEnd(wordsEnd(b)))}
                b == CHOOSE x \in at : \A y \in at : x <= y
            IN  IF at = {} THEN None ELSE SubSeq(query, b, wordsEnd(b) - 1)
        matches == SelectSeq(<<after(<<"i", "n">>), after(<<"a", "t">>), after(<<"n", "e", "a", "r">>), after(<<"f", "r", "o", "m">>),
                               before>>, LAMBDA m : m # None)
        location ==
            IF /\ inferred_location # None
               /\ inferred_location # <<>>
               /\ Lower(inferred_location) # <<"u", "n", "k", "n", "o", "w", "n">>
            THEN inferred_location
            ELSE IF matches = <<>> THEN <<"U", "n", "k", "n", "o", "w", "n">> ELSE matches[1]
        disaster_mapping ==
            << <<"flood", {<<"f", "l", "o", "o", "d">>, <<"f", "l", "o", "o", "d", "i", "n", "g">>, <<"w", "a", "t", "e", "r", " ", "e", "n", "t", "e", "r", "i", "n", "g">>}>>,
               <<"earthquake", {<<"e", "a", "r", "t", "h", "q", "u", "a", "k", "e">>, <<"q", "u", "a", "k", "e">>, <<"t", "r", "e", "m", "o", "r">>, <<"s", "e", "i", "s", "m", "i", "c">>}>>,
               <<"tsunami", {<<"t", "s", "u", "n", "a", "m", "i">>, <<"t", "i", "d", "a", "l", " ", "w", "a", "v", "e">>}>>,
               <<"cyclone", {<<"c", "y", "c", "l", "o", "n", "e">>, <<"h", "u", "r", "r", "i", "c", "a", "n", "e">>, <<"t", "y", "p", "h", "o", "o", "n">>, <<"s", "t", "o", "r", "m">>}>>,
               <<"fire", {<<"f", "i", "r", "e">>, <<"w", "i", "l", "d", "f", "i", "r", "e">>, <<"b", "l", "a", "z", "e">>, <<"b", "u", "r", "n", "i", "n", "g">>}>>,
               <<"landslide", {<<"l", "a", "n", "d", "s", "l", "i", "d", "e">>, <<"m", "u", "d", "s", "l", "i", "d", "e">>, <<"d", "e", "b", "r", "i", "s">>}>> >>
        dtypes == SelectSeq(disaster_mapping, LAMBDA m : ContainsAny(query_lower, m[2]))
    IN  [sentiment |-> sentiment(urgency, query, keywords_found),
         urgency_score |-> urgency,
         location |-> location,
         disaster_type |-> IF dtypes = <<>> THEN "None" ELSE dtypes[1][1],
         is_emergency |-> urgency >= 8 \/ panic,
         keywords_found |-> keywords_found]

(***************************************************************************)
(* The tools called on their own: calculate_credibility, analyze_query,    *)
(* validate_query and save_for_human_review.  The first three read and     *)
(* write no state; call is the tool and its arguments, ret what it         *)
(* returned.                                                               *)
(***************************************************************************)
CredibilityArgs ==
    { [search_summary |-> s, sources_mentioned |-> m, location |-> l, disaster_type |-> d] :
        s \in { <<"N", "D", "R", "F", " ", "c", "o", "n", "f", "i", "r", "m", "s", " ", "f", "l", "o", "o", "d", "i", "n", "g", " ", "t", "o", "d", "a", "y", " ", "i", "n", " ", "C", "h", "e", "n", "n", "a", "i", ".", " ", "R", "e", "u", "t", "e", "r", "s", " ", "r", "e", "p", "o", "r", "t", "s", " ", "h", "e", "a", "v", "y", " ", "r", "a", "i", "n", ".">>,
                <<"N", "D", "R", "F", " ", "c", "o", "n", "f", "i", "r", "m", "s", " ", "f", "l", "o", "o", "d", "i", "n", "g", " ", "i", "n", " ", "C", "h", "e", "n", "n", "a", "i", ".", " ", "R", "e", "u", "t", "e", "r", "s", " ", "r", "e", "p", "o", "r", "t", "s", " ", "h", "e", "a", "v", "y", " ", "r", "a", "i", "n", ".">>,
                <<>>,
                <<"R", "u", "m", "o", "r", " ", "o", "f", " ", "f", "i", "r", "e", ",", " ", "n", "o", "t", " ", "v", "e", "r", "i", "f", "i", "e", "d">>,
                <<"N", "D", "R", "F", ",", " ", "N", "D", "M", "A", " ", "a", "n", "d", " ", "F", "E", "M", "A", ",", " ", "R", "e", "u", "t", "e", "r", "s", ",", " ", "B", "B", "C", ",", " ", "C", "N", "N", " ", "a", "n", "d", " ", "A", "F", "P", " ", "a", "l", "l", " ", "r", "e", "p", "o", "r", "t", " ", "f", "l", "o", "o", "d", "i", "n", "g", " ", "t", "o", "d", "a", "y", " ", "i", "n", " ", "C", "h", "e", "n", "n", "a", "i">>,
                <<"N", "D", "R", "F", " ", "s", "a", "y", "s", " ", "t", "h", "e", " ", "f", "l", "o", "o", "d", "i", "n", "g", " ", "r", "e", "p", "o", "r", "t", " ", "f", "r", "o", "m", " ", "C", "h", "e", "n", "n", "a", "i", " ", "i", "s", " ", "a", " ", "h", "o", "a", "x">>,
                <<"L", "o", "c", "a", "t", "i", "o", "n", " ", "u", "n", "k", "n", "o", "w", "n", ",", " ", "f", "l", "o", "o", "d", "i", "n", "g", " ", "o", "n", "g", "o", "i", "n", "g">>,
                <<"O", "f", "f", "i", "c", "i", "a", "l", "s", " ", "d", "e", "n", "i", "e", "d", " ", "t", "h", "e", " ", "r", "e", "p", "o", "r", "t">> },
        m \in { <<>>, <<"n", "d", "r", "f", ",", " ", "r", "e", "u", "t", "e", "r", "s">>, <<"n", "d", "r", "f", ".", "g", "o", "v", ".", "i", "n", ",", " ", "r", "e", "u", "t", "e", "r", "s", ".", "c", "o", "m">>, <<"b", "b", "c", ",", " ", "f", "a", "k", "e", " ", "n", "e", "w", "s", " ", "s", "i", "t", "e">> },
        l \in { <<>>, <<"C", "h", "e", "n", "n", "a", "i">>, <<"U", "n", "k", "n", "o", "w", "n">>, <<"h", "o", "a", "x">> },
        d \in { <<>>, <<"f", "l", "o", "o", "d">> } }

Credibility(a) ==
    /\ call.op = "none"
    /\ call' = [op |-> "calculate_credibility", search_summary |-> a.search_summary,
                sources_mentioned |-> a.sources_mentioned, location |-> a.location,
                disaster_type |-> a.disaster_type]
    /\ ret' = calculate_credibility(a.search_summary, a.sources_mentioned, a.location,
                                    a.disaster_type)
    /\ UNCHANGED <<csv_exists, csv_lines, writable, saved, touched, task, pipeVars>>

\* C14: the score calculate_credibility returns is the sum of min(40, 20 per
\* official source found), min(30, 10 per other source found), 10 for a
\* recency keyword, 10 for the declared location in the search text, 10 for
\* three or more sources found, 5 for the declared disaster type in the
\* search text, less 30 for a doubt keyword, kept within 0..100; one official
\* and one news source with recency, location and disaster type gives 55
C14_ScoreFormula ==
    call.op = "calculate_credibility" =>
        \A text \in {Lower(call.search_summary)}, listed \in {Lower(call.sources_mentioned)} :
        \A official \in {Cardinality({n \in {<<"n", "d", "r", "f">>, <<"n", "d", "m", "a">>, <<"f", "e", "m", "a">>, <<"g", "o", "v", "e", "r", "n", "m", "e", "n", "t">>,
                                             <<"m", "i", "n", "i", "s", "t", "r", "y">>, <<"o", "f", "f", "i", "c", "i", "a", "l">>} :
                                        Contains(text, n) \/ Contains(listed, n)})} :
        \A raw \in {(IF 20 * official > 40 THEN 40 ELSE 20 * official)
                    + (IF 10 * (Len(ret.sources_found) - official) > 30 THEN 30
                       ELSE 10 * (Len(ret.sources_found) - official))
                    + (IF ContainsAny(text, {<<"t", "o", "d", "a", "y">>, <<"n", "o", "w">>, <<"j", "u", "s", "t">>, <<"b", "r", "e", "a", "k", "i", "n", "g">>,
                                             <<"l", "a", "t", "e", "s", "t">>, <<"c", "u", "r", "r", "e", "n", "t">>, <<"o", "n", "g", "o", "i", "n", "g">>})
                       THEN 10 ELSE 0)
                    + (IF /\ call.location # <<>>
                          /\ Lower(call.location) # <<"u", "n", "k", "n", "o", "w", "n">>
                          /\ Contains(text, Lower(call.location))
                       THEN 10 ELSE 0)
                    + (IF Len(ret.sources_found) >= 3 THEN 10 ELSE 0)
                    + (IF /\ call.disaster_type # <<>>
                          /\ Contains(text, Lower(call.disaster_type))
                       THEN 5 ELSE 0)
                    - (IF ContainsAny(text, {<<"u", "n", "c", "o", "n", "f", "i", "r", "m", "e", "d">>, <<"r", "u", "m", "o", "r">>, <<"f", "a", "l", "s", "e">>, <<"f", "a", "k", "e">>,
                                             <<"h", "o", "a", "x">>, <<"n", "o", "t", " ", "t", "r", "u", "e">>, <<"d", "e", "n", "i", "e", "d">>})
                       THEN 30 ELSE 0)} :
            /\ ret.official_sources_count = official
            /\ ret.news_sources_count = Len(ret.sources_found) - official
            /\ ret.score = IF raw < 0 THEN 0 ELSE IF raw > 100 THEN 100 ELSE raw
            /\ (/\ call.search_summary
                     = <<"N", "D", "R", "F", " ", "c", "o", "n", "f", "i", "r", "m", "s", " ", "f", "l", "o", "o", "d", "i", "n", "g", " ", "t", "o", "d", "a", "y", " ", "i", "n", " ", "C", "h", "e", "n", "n", "a", "i", ".", " ", "R", "e", "u", "t", "e", "r", "s", " ", "r", "e", "p", "o", "r", "t", "s", " ", "h", "e", "a", "v", "y", " ", "r", "a", "i", "n", ".">>
                /\ call.sources_mentioned = <<"n", "d", "r", "f", ",", " ", "r", "e", "u", "t", "e", "r", "s">>
                /\ call.location = <<"C", "h", "e", "n", "n", "a", "i">>
                /\ call.disaster_type = <<"f", "l", "o", "o", "d">>)
               => ret.score = 55 /\ Len(ret.sources_found) = 2

C14_Witness ==
    /\ call.op = "calculate_credibility"
    /\ call.search_summary
         = <<"N", "D", "R", "F", " ", "c", "o", "n", "f", "i", "r", "m", "s", " ", "f", "l", "o", "o", "d", "i", "n", "g", " ", "t", "o", "d", "a", "y", " ", "i", "n", " ", "C", "h", "e", "n", "n", "a", "i", ".", " ", "R", "e", "u", "t", "e", "r", "s", " ", "r", "e", "p", "o", "r", "t", "s", " ", "h", "e", "a", "v", "y", " ", "r", "a", "i", "n", ".">>
    /\ call.sources_mentioned = <<"n", "d", "r", "f", ",", " ", "r", "e", "u", "t", "e", "r", "s">>
    /\ call.location = <<"C", "h", "e", "n", "n", "a", "i">>
    /\ call.disaster_type = <<"f", "l", "o", "o", "d">>
    /\ ret.score = 55

\* C31: the score is the one the rules give on the search summary followed by the
\* listed sources: text that stands only in sources_mentioned counts as if it stood in
\* search_summary
C31_RulesReadBoth ==
    call.op = "calculate_credibility" =>
        ret.score = calculate_credibility(call.search_summary \o <<" ">> \o call.sources_mentioned,
                                          call.sources_mentioned, call.location,
                                          call.disaster_type).score

AnalyzeArgs ==
    { [query |-> q, inferred_location |-> l] :
        q \in { <<"H", "e", "l", "p", "!", " ", "F", "l", "o", "o", "d", "i", "n", "g", " ", "i", "n", " ", "M", "u", "m", "b", "a", "i", "!", "!">>,
                <<"H", "e", "l", "p", "!", " ", "F", "l", "o", "o", "d", "i", "n", "g", " ", "i", "n", " ", "M", "u", "m", "b", "a", "i", "!">>,
                <<"I", "s", " ", "t", "h", "e", "r", "e", " ", "a", " ", "f", "l", "o", "o", "d", " ", "i", "n", " ", "N", "e", "w", " ", "D", "e", "l", "h", "i", " ", "a", "r", "e", "a", "?">>,
                <<"W", "h", "a", "t", " ", "i", "s", " ", "h", "a", "p", "p", "e", "n", "i", "n", "g", "?">>,
                <<"h", "e", "l", "l", "o", " ", "t", "h", "e", "r", "e">>,
                <<>>,
                <<"E", "a", "r", "t", "h", "q", "u", "a", "k", "e", " ", "n", "e", "a", "r", " ", "T", "o", "k", "y", "o", " ", "n", "o", "w">>,
                <<"f", "i", "r", "e">>,
                <<"S", "O", "S", " ", "t", "r", "a", "p", "p", "e", "d", ",", " ", "w", "i", "l", "d", "f", "i", "r", "e", " ", "a", "n", "d", " ", "s", "t", "o", "r", "m", " ", "n", "e", "a", "r", " ", "P", "a", "r", "a", "d", "i", "s", "e", " ", "t", "o", "w", "n", "!", "!", " ", "s", "e", "n", "d", " ", "r", "e", "s", "c", "u", "e", " ", "i", "m", "m", "e", "d", "i", "a", "t", "e", "l", "y">>,
                <<"I", "s", " ", "i", "t", " ", "r", "a", "i", "n", "i", "n", "g", " ", "a", "t", " ", "P", "u", "n", "e">>,
                <<"h", "e", "l", "p", " ", "u", "s">>,
                <<"p", "e", "o", "p", "l", "e", " ", "a", "r", "e", " ", "d", "y", "i", "n", "g">> },
        l \in { None, <<"M", "u", "m", "b", "a", "i">>, <<"u", "n", "k", "n", "o", "w", "n">> } }

Analyze(a) ==
    /\ call.op = "none"
    /\ call' = [op |-> "analyze_query", query |-> a.query,
                inferred_location |-> a.inferred_location]
    /\ ret' = analyze_query(a.query, a.inferred_location)
    /\ UNCHANGED <<csv_exists, csv_lines, writable, saved, touched, task, pipeVars>>

\* C16: the urgency_score of analyze_query lies in 1..10, and a panic
\* indicator, an urgent indicator, a '!' or a vocabulary keyword put before
\* or after the query never lowers it
C16_UrgencyMonotone ==
    call.op = "analyze_query" =>
        /\ ret.urgency_score \in 1..10
        /\ \A add \in {<<"h", "e", "l", "p">>, <<"s", "o", "s">>, <<"e", "m", "e", "r", "g", "e", "n", "c", "y">>, <<"t", "r", "a", "p", "p", "e", "d">>, <<"d", "y", "i", "n", "g">>, <<"d", "r", "o", "w", "n", "i", "n", "g">>,
                       <<"n", "o", "w">>, <<"i", "m", "m", "e", "d", "i", "a", "t", "e", "l", "y">>, <<"u", "r", "g", "e", "n", "t">>, <<"q", "u", "i", "c", "k", "l", "y">>, <<"a", "s", "a", "p">>, <<"!">>}
                      \cup {CONFIG_DISASTER_KEYWORDS[k] : k \in 1..Len(CONFIG_DISASTER_KEYWORDS)} :
              /\ analyze_query(AsTuple(call.query \o <<" ">> \o add),
                               call.inferred_location).urgency_score >= ret.urgency_score
              /\ analyze_query(AsTuple(add \o <<" ">> \o call.query),
                               call.inferred_location).urgency_score >= ret.urgency_score

C16_Witness ==
    /\ call.op = "analyze_query"
    /\ call.query = <<"E", "a", "r", "t", "h", "q", "u", "a", "k", "e", " ", "n", "e", "a", "r", " ", "T", "o", "k", "y", "o", " ", "n", "o", "w">>
    /\ ret.urgency_score = 6
    /\ analyze_query(AsTuple(call.query \o <<" ", "h", "e", "l", "p">>), call.inferred_location).urgency_score = 10

\* C17: urgency_score is 3, plus 4 with a panic indicator, plus 2 with an
\* urgent indicator, plus 1 with two or more '!', plus the number of
\* vocabulary keywords found, kept within 1..10; 'Help! Flooding in Mumbai!!'
\* gives urgency 10, sentiment panic, disaster type flood and an emergency
C17_UrgencyFormula ==
    call.op = "analyze_query" =>
        \A text \in {Lower(call.query)} :
        \A raw \in {3 + (IF ContainsAny(text, {<<"h", "e", "l", "p">>, <<"s", "o", "s">>, <<"e", "m", "e", "r", "g", "e", "n", "c", "y">>, <<"t", "r", "a", "p", "p", "e", "d">>,
                                                <<"d", "y", "i", "n", "g">>, <<"d", "r", "o", "w", "n", "i", "n", "g">>}) THEN 4 ELSE 0)
                      + (IF ContainsAny(text, {<<"n", "o", "w">>, <<"i", "m", "m", "e", "d", "i", "a", "t", "e", "l", "y">>, <<"u", "r", "g", "e", "n", "t">>, <<"q", "u", "i", "c", "k", "l", "y">>,
                                                <<"a", "s", "a", "p">>, <<"!">>}) THEN 2 ELSE 0)
                      + (IF Cardinality({i \in 1..Len(call.query) : call.query[i] = "!"}) >= 2
                         THEN 1 ELSE 0)
                      + Cardinality({k \in 1..Len(CONFIG_DISASTER_KEYWORDS) :
                                       Contains(text, CONFIG_DISASTER_KEYWORDS[k])})} :
            /\ ret.urgency_score = IF raw < 1 THEN 1 ELSE IF raw > 10 THEN 10 ELSE raw
            /\ call.query = <<"H", "e", "l", "p", "!", " ", "F", "l", "o", "o", "d", "i", "n", "g", " ", "i", "n", " ", "M", "u", "m", "b", "a", "i", "!", "!">>
               => /\ ret.urgency_score = 10
                  /\ ret.sentiment = "panic"
                  /\ ret.disaster_type = "flood"
                  /\ ret.is_emergency

C17_Witness ==
    /\ call.op = "analyze_query"
    /\ call.query = <<"H", "e", "l", "p", "!", " ", "F", "l", "o", "o", "d", "i", "n", "g", " ", "i", "n", " ", "M", "u", "m", "b", "a", "i", "!", "!">>
    /\ call.inferred_location = None
    /\ ret.urgency_score = 10
    /\ ret.sentiment = "panic"
    /\ ret.location = <<"M", "u", "m", "b", "a", "i">>

\* C32: the sentiment follows from the returned urgency score and the query's
\* punctuation: 'panic' from 8, 'urgent' for 6 and 7, 'concerned' for 4 and 5, and
\* under 4 'curious' for a query with '?' and no vocabulary keyword, else 'neutral'
C32_SentimentBands ==
    call.op = "analyze_query" =>
        ret.sentiment =
            CASE ret.urgency_score >= 8 -> "panic"
              [] ret.urgency_score \in {6, 7} -> "urgent"
              [] ret.urgency_score \in {4, 5} -> "concerned"
              [] OTHER ->
                   IF /\ \E i \in 1..Len(call.query) : call.query[i] = "?"
                      /\ \A k \in 1..Len(CONFIG_DISASTER_KEYWORDS) :
                            ~Contains(Lower(call.query), CONFIG_DISASTER_KEYWORDS[k])
                   THEN "curious" ELSE "neutral"

C32_Witness ==
    /\ call.op = "analyze_query"
    /\ call.query = <<"W", "h", "a", "t", " ", "i", "s", " ", "h", "a", "p", "p", "e", "n", "i", "n", "g", "?">>
    /\ ret.urgency_score = 3
    /\ ret.sentiment = "curious"

\* C33: is_emergency holds exactly when the returned urgency score is 8 or more or the
\* query contains 'help', 'sos', 'emergency', 'trapped', 'dying' or 'drowning'; 'people
\* are dying' scores 7 and is an emergency
C33_EmergencyFlag ==
    call.op = "analyze_query" =>
        /\ ret.is_emergency
             <=> \/ ret.urgency_score >= 8
                 \/ ContainsAny(Lower(call.query),
                                { <<"h", "e", "l", "p">>, <<"s", "o", "s">>, <<"e", "m", "e", "r", "g", "e", "n", "c", "y">>, <<"t", "r", "a", "p", "p", "e", "d">>, <<"d", "y", "i", "n", "g">>,
                                  <<"d", "r", "o", "w", "n", "i", "n", "g">> })
        /\ call.query = <<"p", "e", "o", "p", "l", "e", " ", "a", "r", "e", " ", "d", "y", "i", "n", "g">> => ret.urgency_score = 7 /\ ret.is_emergency

C33_Witness ==
    /\ call.op = "analyze_query"
    /\ call.query = <<"p", "e", "o", "p", "l", "e", " ", "a", "r", "e", " ", "d", "y", "i", "n", "g">>
    /\ ret.urgency_score = 7
    /\ ret.is_emergency

ValidateQueries ==
    { <<"h", "i">>, <<" ", " ", " ", "o", "k", " ", " ">>, <<"t", "e", "l", "l", " ", "m", "e", " ", "a", " ", "j", "o", "k", "e", " ", "a", "b", "o", "u", "t", " ", "f", "l", "o", "o", "d", "s">>, <<"h", "o", "w", " ", "t", "o", " ", "d", "e", "p", "l", "o", "y", " ", "f", "l", "o", "o", "d", " ", "a", "l", "e", "r", "t", " ", "a", "p", "p">>,
      <<"p", "l", "e", "a", "s", "e", " ", "d", "e", "p", "l", "o", "y", " ", "a", "g", "e", "n", "t", " ", "f", "o", "r", " ", "f", "l", "o", "o", "d", " ", "r", "e", "s", "c", "u", "e">>, <<"f", "l", "o", "o", "d", " ", "i", "n", " ", "p", "u", "n", "e", "?">>, <<"i", "s", " ", "i", "t", " ", "b", "a", "d", " ", "i", "n", " ", "g", "o", "a">>,
      <<"l", "o", "v", "e", "l", "y", " ", "s", "u", "n", "s", "h", "i", "n", "e">>, <<"d", "o", "c", "k", "e", "r", " ", "f", "l", "o", "o", "d", " ", "w", "a", "r", "n", "i", "n", "g">>, <<"G", "i", "t", "h", "u", "b">>, <<"a", "r", "e", " ", "w", "e", " ", "o", "k">>,
      <<"t", "h", "e", " ", "r", "a", "i", "l", "w", "a", "y", " ", "b", "r", "i", "d", "g", "e", " ", "c", "o", "l", "l", "a", "p", "s", "e", "d">> }

Validate(query) ==
    /\ call.op = "none"
    /\ call' = [op |-> "validate_query", query |-> query]
    /\ ret' = validate_query(query)
    /\ UNCHANGED <<csv_exists, csv_lines, writable, saved, touched, task, pipeVars>>

\* C38: validate_query answers with the category disaster, off_topic or unclear, and
\* is_valid holds exactly for the category disaster
C38_CategoryDecidesValid ==
    call.op = "validate_query" =>
        /\ ret.category \in {"disaster", "off_topic", "unclear"}
        /\ ret.is_valid <=> ret.category = "disaster"

\* a query without a disaster keyword, let through as a situation at a location
C38_Witness ==
    /\ call.op = "validate_query"
    /\ call.query = <<"i", "s", " ", "i", "t", " ", "b", "a", "d", " ", "i", "n", " ", "g", "o", "a">>
    /\ ret.is_valid
    /\ ret.category = "disaster"

\* C18: validate_query answers by the first of its rules that matches: a
\* trimmed query under 5 characters is unclear; an off-topic pattern, then a
\* technical or deployment pattern, makes it off_topic; a disaster keyword,
\* then a location indicator with a situational pattern, makes it a valid
\* disaster query; anything else is unclear
C18_FirstRuleDecides ==
    call.op = "validate_query" =>
        \A q \in {StripChars(Lower(call.query), WS)} :
            <<ret.is_valid, ret.category>> =
                IF Len(q) < 5 THEN <<FALSE, "unclear">>
                ELSE IF OFF_TOPIC_PATTERNS(q) THEN <<FALSE, "off_topic">>
                ELSE IF TECH_OR_DEV_PATTERNS(q) THEN <<FALSE, "off_topic">>
                ELSE IF ContainsAny(q, DISASTER_KEYWORDS) THEN <<TRUE, "disaster">>
                ELSE IF location_indicators(q) /\ situation_patterns(q)
                THEN <<TRUE, "disaster">>
                ELSE <<FALSE, "unclear">>

C18_Witness ==
    /\ call.op = "validate_query"
    /\ call.query = <<"t", "e", "l", "l", " ", "m", "e", " ", "a", " ", "j", "o", "k", "e", " ", "a", "b", "o", "u", "t", " ", "f", "l", "o", "o", "d", "s">>
    /\ ContainsAny(call.query, DISASTER_KEYWORDS)
    /\ ~ret.is_valid
    /\ ret.category = "off_topic"

\* C19: a query of 5 or more trimmed characters with a technical or
\* deployment pattern is rejected as off_topic, disaster keywords or not
C19_TechRejected ==
    (/\ call.op = "validate_query"
     /\ \E q \in {StripChars(Lower(call.query), WS)} :
           Len(q) >= 5 /\ TECH_OR_DEV_PATTERNS(q))
    => ~ret.is_valid /\ ret.category = "off_topic"

C19_Witness ==
    /\ call.op = "validate_query"
    /\ call.query = <<"p", "l", "e", "a", "s", "e", " ", "d", "e", "p", "l", "o", "y", " ", "a", "g", "e", "n", "t", " ", "f", "o", "r", " ", "f", "l", "o", "o", "d", " ", "r", "e", "s", "c", "u", "e">>
    /\ TECH_OR_DEV_PATTERNS(call.query)
    /\ ~OFF_TOPIC_PATTERNS(call.query)
    /\ ContainsAny(call.query, DISASTER_KEYWORDS)
    /\ ~ret.is_valid
    /\ ret.category = "off_topic"

\* save_for_human_review called with an urgency of each class
ToolSaveArgs ==
    { [query |-> <<"f", "l", "o", "o", "d", " ", "i", "n", " ", "p", "u", "n", "e", "?">>, location |-> <<"p", "u", "n", "e">>, urgency_score |-> u,
       credibility_score |-> 45] : u \in {1, 4, 5, 7, 8, 10} }

\* C20: a save that succeeds appends one record and returns status 'saved',
\* the session_id of that record, and the review time of its urgency: within
\* 15 minutes from 8 up, within 1 hour from 5 to 7, within 24 hours below 5
C20_ReviewTime ==
    [][(call'.op = "save" /\ ret'.status = "saved")
       => /\ Len(csv_lines') = (IF csv_exists THEN Len(csv_lines) ELSE 1) + 1
          /\ Len(saved') = Len(saved) + 1
          /\ \A new \in {DictReader(<<csv_lines'[1], csv_lines'[Len(csv_lines')]>>)},
                u \in {saved'[Len(saved')].urgency_score} :
               /\ Len(new) = 1
               /\ Get(new[1], S_session_id, None) = ret'.session_id
               /\ Get(new[1], S_urgency_score, None) = IntToStr(u)
               /\ ret'.session_id = call'.session_id
               /\ ret'.estimated_review_time =
                    IF u >= 8 THEN <<"w", "i", "t", "h", "i", "n", " ", "1", "5", " ", "m", "i", "n", "u", "t", "e", "s">>
                    ELSE IF u >= 5 THEN <<"w", "i", "t", "h", "i", "n", " ", "1", " ", "h", "o", "u", "r">>
                    ELSE <<"w", "i", "t", "h", "i", "n", " ", "2", "4", " ", "h", "o", "u", "r", "s">>]_vars

C20_Witness ==
    /\ call.op = "save"
    /\ ret.status = "saved"
    /\ Len(saved) = 2
    /\ saved[1].urgency_score = 7
    /\ saved[2].urgency_score = 4
    /\ ret.estimated_review_time = <<"w", "i", "t", "h", "i", "n", " ", "2", "4", " ", "h", "o", "u", "r", "s">>
    /\ ret.session_id = saved[2].session_id

\* C22: analyze_query('Help! Flooding in Mumbai!', inferred_location='Mumbai')
\* returns urgency_score 9 and location 'Mumbai', as its documentation says
C22_DocExample ==
    (/\ call.op = "analyze_query"
     /\ call.query = <<"H", "e", "l", "p", "!", " ", "F", "l", "o", "o", "d", "i", "n", "g", " ", "i", "n", " ", "M", "u", "m", "b", "a", "i", "!">>
     /\ call.inferred_location = <<"M", "u", "m", "b", "a", "i">>)
    => ret.urgency_score = 9 /\ ret.location = <<"M", "u", "m", "b", "a", "i">>

\* C23: calculate_credibility returns score 75 for the example of its
\* documentation
C23_DocExample ==
    (/\ call.op = "calculate_credibility"
     /\ call.search_summary = <<"N", "D", "R", "F", " ", "c", "o", "n", "f", "i", "r", "m", "s", " ", "f", "l", "o", "o", "d", "i", "n", "g", " ", "i", "n", " ", "C", "h", "e", "n", "n", "a", "i", ".", " ", "R", "e", "u", "t", "e", "r", "s", " ", "r", "e", "p", "o", "r", "t", "s", " ", "h", "e", "a", "v", "y", " ", "r", "a", "i", "n", ".">>
     /\ call.sources_mentioned = <<"n", "d", "r", "f", ".", "g", "o", "v", ".", "i", "n", ",", " ", "r", "e", "u", "t", "e", "r", "s", ".", "c", "o", "m">>
     /\ call.location = <<"C", "h", "e", "n", "n", "a", "i">>
     /\ call.disaster_type = <<"f", "l", "o", "o", "d">>)
    => ret.score = 75

ToolsNext ==
    \/ \E a \in CredibilityArgs : Credibility(a)
    \/ \E a \in AnalyzeArgs : Analyze(a)
    \/ \E query \in ValidateQueries : Validate(query)
    \/ \E a \in ToolSaveArgs, sid \in SessionIds : Save(a, sid)

SpecTools == Init /\ [][ToolsNext]_vars

(***************************************************************************)
(* Further properties of the store under Spec.                             *)
(***************************************************************************)
\* C21: list('pending') returns the stored entries whose status is
\* 'pending' and list('all') every stored entry, in the order of the store,
\* and count is the number of entries returned
C21_ListByStatus ==
    (call.op = "list" /\ ret.status = "success")
    => \A stored \in {Entries} :
          \A kept \in {SelectSeq(stored, LAMBDA e : call.status_filter = S_all
                                                    \/ Get(e, S_status, None) = S_pending)} :
              /\ ret.entries = kept
              /\ ret.count = Len(ret.entries)
              /\ call.status_filter = S_all => Len(ret.entries) = Len(saved)

\* list('pending') has left out an entry that an update has verified
C21_Witness ==
    /\ call.op = "list"
    /\ call.status_filter = S_pending
    /\ ret.status = "success"
    /\ Len(Entries) = 2
    /\ ret.count = 1
    /\ Get(Entries[1], S_status, None) = S_verified


\* C25: an update that succeeds leaves the header, the number and order of
\* the records and every record with another session_id as they were, and
\* changes nothing but status and reviewer_notes in the matching entry
C25_UpdateFrame ==
    [][(call'.op = "update" /\ ret'.status = "success")
       => \A before \in {DictReader(csv_lines)}, after \in {DictReader(csv_lines')} :
             /\ Len(csv_lines') = Len(csv_lines)
             /\ csv_lines'[1] = csv_lines[1]
             /\ Len(after) = Len(before)
             /\ \A i \in 1..Len(before) :
                   IF Get(before[i], S_session_id, None) = call'.session_id
                   THEN /\ after[i].keys = before[i].keys
                        /\ \A k \in 1..Len(before[i].keys) :
                              after[i].values[k] =
                                 IF before[i].keys[k] = S_status THEN call'.new_status
                                 ELSE IF before[i].keys[k] = S_reviewer_notes
                                 THEN call'.reviewer_notes
                                 ELSE before[i].values[k]
                   ELSE /\ after[i] = before[i]
                        /\ csv_lines'[i + 1] = csv_lines[i + 1]]_vars

\* an update has changed the second of two entries, the first of which has
\* a query that needs quoting and was updated before
C25_Witness ==
    /\ call.op = "update"
    /\ ret.status = "success"
    /\ Len(Entries) = 2
    /\ Get(Entries[2], S_session_id, None) = call.session_id
    /\ Get(Entries[1], S_session_id, None) # call.session_id
    /\ NeedsQuote(Get(Entries[1], S_query, None))
    /\ Get(Entries[1], S_status, None) = S_verified
    /\ Get(Entries[2], S_status, None) = <<"d", "o", "n", "e">>

\* C26: the status of every stored entry is one of pending, verified,
\* rejected and needs_more_info
C26_StatusEnum ==
    \A stored \in {Entries} :
       \A i \in 1..Len(stored) :
          Get(stored[i], S_status, None)
             \in {S_pending, S_verified, <<"r", "e", "j", "e", "c", "t", "e", "d">>, <<"n", "e", "e", "d", "s", "_", "m", "o", "r", "e", "_", "i", "n", "f", "o">>}

(***************************************************************************)
(* SpecLost: on a store that holds entries, task A runs an update while    *)
(* task B runs a save or an update of another entry.  A step is one file   *)
(* system call: the read of the whole file, open(..., 'w'), which          *)
(* truncates, the write of the rows when that file is closed, and, for     *)
(* the save, os.path.exists and the append.                                *)
(***************************************************************************)
LostInit ==
    /\ writable = TRUE
    /\ call = [op |-> "none"]
    /\ ret = [status |-> "none"]
    /\ touched = {}
    /\ PipeIdle
    /\ csv_exists = TRUE
    /\ \E ida \in SessionIds, a1 \in SaveArgs, a2 \in SaveArgs, u1 \in UpdateArgs :
       \E idb \in SessionIds \ {ida} :
       \E one \in {save_for_human_review(File(FALSE, <<>>), TRUE, a1.query, a1.location,
                      a1.urgency_score, a1.credibility_score, ida, NowAt(0)).file} :
       \E two \in {save_for_human_review(one, TRUE, a2.query, a2.location,
                      a2.urgency_score, a2.credibility_score, idb, NowAt(1)).file} :
          \/ /\ csv_lines = one.lines
             /\ saved = <<HumanReviewEntry(ida, a1.query, a1.location, a1.urgency_score,
                                           a1.credibility_score, NowAt(0))>>
             /\ task = [t \in Tasks |->
                          IF t = "A" THEN [pc |-> "read", op |-> "update", sid |-> ida,
                                           u |-> u1, lines |-> <<>>]
                          ELSE [pc |-> "check", op |-> "save", sid |-> idb, a |-> a2]]
          \/ /\ csv_lines = two.lines
             /\ saved = <<HumanReviewEntry(ida, a1.query, a1.location, a1.urgency_score,
                                           a1.credibility_score, NowAt(0)),
                          HumanReviewEntry(idb, a2.query, a2.location, a2.urgency_score,
                                           a2.credibility_score, NowAt(1))>>
             /\ \E u2 \in UpdateArgs :
                  task = [t \in Tasks |->
                            [pc |-> "read", op |-> "update", sid |-> IF t = "A" THEN ida ELSE idb,
                             u |-> IF t = "A" THEN u1 ELSE u2, lines |-> <<>>]]

\* update_review_status: _ensure_csv_exists finds the file, the read loop
\* reads it whole; without a matching row the call returns 'not found'
UpdRead(t) ==
    /\ task[t].pc = "read"
    /\ \E r \in {update_review_status(File(TRUE, csv_lines), TRUE, task[t].sid,
                    task[t].u.new_status, task[t].u.reviewer_notes)} :
          IF Found(DictReader(csv_lines), task[t].sid)
          THEN /\ task' = [task EXCEPT ![t].pc = "open", ![t].lines = csv_lines]
               /\ UNCHANGED <<call, ret>>
          ELSE /\ task' = [task EXCEPT ![t].pc = "done"]
               /\ ret' = r.ret
               /\ call' = [op |-> "update", session_id |-> task[t].sid,
                           new_status |-> task[t].u.new_status,
                           reviewer_notes |-> task[t].u.reviewer_notes]
    /\ UNCHANGED <<csv_exists, csv_lines, writable, saved, touched, pipeVars>>

\* update_review_status: open(PENDING_VERIFICATIONS_PATH, 'w') truncates
UpdOpenW(t) ==
    /\ task[t].pc = "open"
    /\ csv_lines' = <<>>
    /\ task' = [task EXCEPT ![t].pc = "write"]
    /\ UNCHANGED <<csv_exists, writable, call, ret, saved, touched, pipeVars>>

\* update_review_status: the header and the rows read before reach the file
\* when the with block closes it
UpdWrite(t) ==
    /\ task[t].pc = "write"
    /\ \E r \in {update_review_status(File(TRUE, task[t].lines), TRUE, task[t].sid,
                    task[t].u.new_status, task[t].u.reviewer_notes)} :
          /\ csv_lines' = WriteAtStart(csv_lines, Stream(r.file.lines))
          /\ ret' = r.ret
          /\ touched' = IF r.ret.status = "success" THEN touched \cup {task[t].sid}
                        ELSE touched
    /\ call' = [op |-> "update", session_id |-> task[t].sid,
                new_status |-> task[t].u.new_status,
                reviewer_notes |-> task[t].u.reviewer_notes]
    /\ task' = [task EXCEPT ![t].pc = "done"]
    /\ UNCHANGED <<csv_exists, writable, saved, pipeVars>>

LostNext ==
    \/ \E t \in Tasks : UpdRead(t)
    \/ \E t \in Tasks : UpdOpenW(t)
    \/ \E t \in Tasks : UpdWrite(t)
    \/ \E t \in Tasks : RaceCheck(t)
    \/ \E t \in Tasks : RaceAppend(t)

SpecLost == LostInit /\ [][LostNext]_vars

\* C24: when an update has run together with a save, or with an update of
\* another entry, every entry saved is in the store and every entry updated
\* has the status its update gave it
C24_NoLostEffect ==
    (\A t \in Tasks : task[t].pc = "done")
    => \A stored \in {Entries} :
          /\ \A i \in 1..Len(saved) : \E j \in 1..Len(stored) :
                Get(stored[j], S_session_id, None) = saved[i].session_id
          /\ \A t \in Tasks :
                task[t].op = "update"
                => \E j \in 1..Len(stored) :
                      /\ Get(stored[j], S_session_id, None) = task[t].sid
                      /\ Get(stored[j], S_status, None) = task[t].u.new_status


(***************************************************************************)
(* Further properties of the entry points under SpecPipe.                  *)
(***************************************************************************)
\* C27: once an event with an error message has been seen in a call, or an
\* exception is raised, the call ends as a failed one with an error
\* response: it never returns the report of a later final response
C27_ErrorAbsorbing ==
    [][(/\ run.pc = "stream"
        /\ run'.pc = "done"
        /\ \/ _error_count > run.errors0
           \/ run'.exit \in {"error_event", "except"})
       => /\ run'.exit \in FailedExits
          /\ result'.response # run.final_response]_vars


(***************************************************************************)
(* SpecEdge: one call of an entry point whose stream ends with a report    *)
(* the synthesis step is free to write: a score above 100, and a score     *)
(* under the threshold followed by the sentence its instruction asks for.  *)
(***************************************************************************)
\* final response texts: orchestrator.py's SYNTHESIZER_INSTRUCTION and agent.py's instruction
\* give the two placeholder sentences
EdgeReports ==
    { <<"C", "r", "e", "d", "i", "b", "i", "l", "i", "t", "y", " ", "S", "c", "o", "r", "e", " ", "|", " ", "1", "7", "5", "/", "1", "0", "0">>,
      <<"C", "r", "e", "d", "i", "b", "i", "l", "i", "t", "y", " ", "S", "c", "o", "r", "e", " ", "|", " ", "4", "5", "/", "1", "0", "0", "\n", "U+26A0", "U+FE0F", " ", "T", "h", "i", "s", " ", "q", "u", "e", "r", "y", " ", "h", "a", "s", " ", "b", "e", "e", "n", " ", "f", "l", "a", "g", "g", "e", "d", " ", "f", "o", "r", " ", "h", "u", "m", "a", "n", " ", "e", "x", "p", "e", "r", "t", " ", "r", "e", "v", "i", "e", "w", " ", "d", "u", "e", " ", "t", "o", " ", "l", "o", "w", " ", "c", "r", "e", "d", "i", "b", "i", "l", "i", "t", "y", " ", "s", "c", "o", "r", "e", ".">>,
      <<"C", "r", "e", "d", "i", "b", "i", "l", "i", "t", "y", " ", "S", "c", "o", "r", "e", " ", "|", " ", "4", "5", "/", "1", "0", "0", "\n", "T", "h", "i", "s", " ", "q", "u", "e", "r", "y", " ", "h", "a", "s", " ", "b", "e", "e", "n", " ", "f", "l", "a", "g", "g", "e", "d", " ", "f", "o", "r", " ", "h", "u", "m", "a", "n", " ", "e", "x", "p", "e", "r", "t", " ", "r", "e", "v", "i", "e", "w", ".", " ", "R", "e", "f", "e", "r", "e", "n", "c", "e", " ", "I", "D", " ", "w", "i", "l", "l", " ", "b", "e", " ", "p", "r", "o", "v", "i", "d", "e", "d", ".">> }

EdgeNext ==
    \/ \E query \in { <<"s", "o", "s", "!", " ", "f", "l", "o", "o", "d", " ", "i", "n", " ", "p", "u", "n", "e">>, <<"p", "e", "o", "p", "l", "e", " ", "t", "r", "a", "p", "p", "e", "d", ",", " ", "f", "l", "o", "o", "d", " ", "i", "n", " ", "p", "u", "n", "e">>,
                      <<"h", "e", "l", "p", ",", " ", "f", "l", "o", "o", "d", " ", "i", "n", " ", "p", "u", "n", "e">>, <<"f", "l", "o", "o", "d", " ", "i", "n", " ", "p", "u", "n", "e", "?">> } : CapStart(query)
    \/ \E t \in EdgeReports :
          PEvent([author |-> "synthesizer_agent", error_message |-> FALSE, final |-> TRUE,
                  text |-> t])
    \/ PEnd

SpecEdge == CapInit /\ [][EdgeNext]_vars

\* C28: the credibility score a call returns with its report, and the one of
\* every entry it stored, lies between 0 and 100
C28_ScoreInRange ==
    /\ (/\ entry_point = "MultiAgentRunner"
        /\ run.pc = "done"
        /\ run.exit = "report"
        /\ result.credibility_score # NoScore)
       => result.credibility_score \in 0..100
    /\ \A i \in 1..Len(saved) : saved[i].credibility_score \in 0..100

\* C29: the entry a call has just stored carries urgency 8 when its query contains one of
\* 'emergency', 'help', 'urgent', 'trapped', 'sos', and urgency 5 otherwise, whichever
\* entry point made the call
C29_EscalationUrgency ==
    (/\ run.pc = "done"
     /\ call.op = "save"
     /\ ret.status = "saved")
    => saved[Len(saved)].urgency_score =
          IF ContainsAny(Lower(run.query),
                         { <<"e", "m", "e", "r", "g", "e", "n", "c", "y">>, <<"h", "e", "l", "p">>, <<"u", "r", "g", "e", "n", "t">>, <<"t", "r", "a", "p", "p", "e", "d">>, <<"s", "o", "s">> })
          THEN 8 ELSE 5

\* C30: after a successful escalation the response holds one human-review notice, its
\* Reference ID is the session_id of the entry just stored, its review time the one save
\* returned, and the synthesizer's sentence about being flagged for human expert review
\* is gone
C30_EscalationNotice ==
    (/\ run.pc = "done"
     /\ call.op = "save"
     /\ ret.status = "saved")
    => \A s \in {result.response} :
         /\ Cardinality(Lit(s, 1..Len(s), <<"H", "u", "m", "a", "n", " ", "R", "e", "v", "i", "e", "w", " ", "T", "r", "i", "g", "g", "e", "r", "e", "d">>)) = 1
         /\ Cardinality(Lit(s, 1..Len(s), <<"R", "e", "f", "e", "r", "e", "n", "c", "e", " ", "I", "D", ":", "*", "*", " ">>)) = 1
         /\ \A e \in Lit(s, 1..Len(s), <<"R", "e", "f", "e", "r", "e", "n", "c", "e", " ", "I", "D", ":", "*", "*", " ">>) :
               Lit(s, {e}, saved[Len(saved)].session_id \o <<"\n">>) # {}
         /\ Cardinality(Lit(s, 1..Len(s), <<"E", "s", "t", "i", "m", "a", "t", "e", "d", " ", "R", "e", "v", "i", "e", "w", " ", "T", "i", "m", "e", ":", "*", "*", " ">>)) = 1
         /\ \A e \in Lit(s, 1..Len(s), <<"E", "s", "t", "i", "m", "a", "t", "e", "d", " ", "R", "e", "v", "i", "e", "w", " ", "T", "i", "m", "e", ":", "*", "*", " ">>) :
               Lit(s, {e}, ret.estimated_review_time \o <<"\n">>) # {}
         /\ Lit(s, 1..Len(s), <<"f", "l", "a", "g", "g", "e", "d", " ", "f", "o", "r", " ", "h", "u", "m", "a", "n", " ", "e", "x", "p", "e", "r", "t", " ", "r", "e", "v", "i", "e", "w">>) = {}

\* C34: when a call of MultiAgentRunner has returned, _error_count is what it was
\* before the call plus 1 after a failed call, 0 after a report, and unchanged after a
\* query the guardrail rejected
C34_ConsecutiveFailures ==
    (entry_point = "MultiAgentRunner" /\ run.pc = "done")
    => _error_count = CASE run.exit = "guardrail" -> run.errors0
                        [] run.exit \in {"error_event", "no_response", "except"} -> run.errors0 + 1
                        [] OTHER -> 0

\* C35: a result of MultiAgentRunner carries human_review only with a credibility score
\* under 60 and a save that reported 'saved'; the result of a rejected or failed query
\* has neither a credibility score nor human_review
C35_ReviewOnlyWhenSaved ==
    (entry_point = "MultiAgentRunner" /\ run.pc = "done")
    => /\ result.human_review # NoReview
          => /\ result.credibility_score # NoScore
             /\ result.credibility_score < 60
             /\ call.op = "save"
             /\ ret.status = "saved"
             /\ result.human_review.session_id = ret.session_id
       /\ run.exit \in {"guardrail", "error_event", "no_response", "except"}
          => /\ result.credibility_score = NoScore
             /\ result.human_review = NoReview

C35_Witness ==
    /\ entry_point = "MultiAgentRunner"
    /\ run.pc = "done"
    /\ run.exit = "report"
    /\ result.human_review # NoReview
    /\ result.credibility_score = 45
    /\ ret.status = "saved"

\* C36: the entry an escalation has just stored has urgency 5 or 8 and a credibility
\* score from 0 to 59, and the review time save returned is 'within 15 minutes' for 8
\* and 'within 1 hour' for 5
C36_EscalatedEntryRange ==
    (/\ run.pc = "done"
     /\ call.op = "save"
     /\ ret.status = "saved")
    => /\ saved[Len(saved)].urgency_score \in {5, 8}
       /\ saved[Len(saved)].credibility_score \in 0..59
       /\ ret.estimated_review_time =
             IF saved[Len(saved)].urgency_score = 8 THEN <<"w", "i", "t", "h", "i", "n", " ", "1", "5", " ", "m", "i", "n", "u", "t", "e", "s">>
             ELSE <<"w", "i", "t", "h", "i", "n", " ", "1", " ", "h", "o", "u", "r">>
       /\ ~Contains(result.response, <<"w", "i", "t", "h", "i", "n", " ", "2", "4", " ", "h", "o", "u", "r", "s">>)

C36_Witness ==
    /\ run.pc = "done"
    /\ call.op = "save"
    /\ ret.status = "saved"
    /\ saved[Len(saved)].urgency_score = 8
    /\ saved[Len(saved)].credibility_score = 45
    /\ ret.estimated_review_time = <<"w", "i", "t", "h", "i", "n", " ", "1", "5", " ", "m", "i", "n", "u", "t", "e", "s">>
    /\ Contains(result.response, <<"w", "i", "t", "h", "i", "n", " ", "1", "5", " ", "m", "i", "n", "u", "t", "e", "s">>)

(***************************************************************************)
(* SpecSession: a long-lived runner and its session.  task holds one       *)
(* record per run of the body of _ensure_initialized: the session_id it    *)
(* assigned, the number of the query that ran it, and whether              *)
(* create_session returned, after which the runner is initialized.         *)
(***************************************************************************)
\* get_status of MultiAgentRunner
get_status ==
    [initialized |-> IF task = <<>> THEN FALSE ELSE task[Len(task)].created,
     session_id |-> IF task = <<>> THEN None ELSE task[Len(task)].session_id,
     query_count |-> _query_count,
     error_count |-> _error_count,
     healthy |-> _error_count < 3]

\* _ensure_initialized without the test of self._initialized
_ensure_initialized_every_query ==
    /\ run.pc = "stream"
    /\ \/ /\ IF task = <<>> THEN TRUE ELSE task[Len(task)].query # _query_count
          /\ task' = Append(task,
                [session_id |-> (IF entry_point = "MultiAgentRunner"
                                 THEN <<"m", "u", "l", "t", "i", "_", "s", "e", "s", "s", "i", "o", "n", "_">> ELSE <<"s", "e", "s", "s", "i", "o", "n", "_">>)
                                \o <<"0", "0", "0", "0", "0", "0", "0">> \o NatToStr(Len(task) + 1),
                 query |-> _query_count, created |-> FALSE])
       \/ /\ task # <<>>
          /\ task[Len(task)].query = _query_count
          /\ ~task[Len(task)].created
          /\ task' = [task EXCEPT ![Len(task)].created = TRUE]
    /\ UNCHANGED <<csv_exists, csv_lines, writable, call, ret, saved, touched, pipeVars>>

\* _ensure_initialized of a runner that is not initialized: up to the await of
\* create_session with a new uuid as session_id, and from its return on
_ensure_initialized ==
    /\ run.pc = "stream"
    /\ ~get_status.initialized
    /\ \/ /\ IF task = <<>> THEN TRUE ELSE task[Len(task)].query # _query_count
          /\ task' = Append(task,
                [session_id |-> (IF entry_point = "MultiAgentRunner"
                                 THEN <<"m", "u", "l", "t", "i", "_", "s", "e", "s", "s", "i", "o", "n", "_">> ELSE <<"s", "e", "s", "s", "i", "o", "n", "_">>)
                                \o <<"0", "0", "0", "0", "0", "0", "0">> \o NatToStr(Len(task) + 1),
                 query |-> _query_count, created |-> FALSE])
       \/ /\ task # <<>>
          /\ task[Len(task)].query = _query_count
          /\ task' = [task EXCEPT ![Len(task)].created = TRUE]
    /\ UNCHANGED <<csv_exists, csv_lines, writable, call, ret, saved, touched, pipeVars>>

\* the stream runs in the session of an initialized runner; create_session and the
\* stream can raise
SessNext ==
    \/ \E query \in Queries : PStart(query)
    \/ _ensure_initialized
    \/ \E e \in Events : get_status.initialized /\ PEvent(e)
    \/ get_status.initialized /\ PEnd
    \/ \E exc \in Exceptions :
          /\ task # <<>>
          /\ task[Len(task)].created \/ task[Len(task)].query = _query_count
          /\ PRaise(exc)

SpecSession == HealthInit /\ [][SessNext]_vars

====
